---------------------------- MODULE Spec2Model ----------------------------
(***************************************************************************)
(* The physical page allocator of vm/vm_page.c: the per-segment binary     *)
(* buddy system, the per-CPU pools of single pages, the segment selector   *)
(* of vm_page_alloc_pa, and the boot-time hand-off (vm_page_load,          *)
(* vm_page_setup, vm_page_manage).                                         *)
(*                                                                         *)
(* A page pointer is the index of the descriptor in its segment's pages    *)
(* array; NULL is -1.  Physical addresses are byte addresses.  Every       *)
(* operator named after a C function is a translation of that function;    *)
(* an assertion of the C code is an "ok" field of the operator's result    *)
(* and ends the run in the fatal state "assertion".                        *)
(***************************************************************************)
EXTENDS Integers, Sequences, FiniteSets, TLC

(***************************************************************************)
(* Program constants.                                                      *)
(***************************************************************************)
VM_PAGE_NR_FREE_LISTS == 11

VM_PAGE_CPU_POOL_MAX_SIZE == 128

VM_PAGE_CPU_POOL_TRANSFER_RATIO == 2

VM_PAGE_ORDER_UNLISTED == 65535

\* mach/vm_param.h, vm/vm_page.h and the machine headers (not part of the
\* sources at hand): the page size, the segment table size, the segment
\* indexes, the selectors and the page types.
PAGE_SHIFT == 12

VM_PAGE_MAX_SEGS == 4

VM_PAGE_SEG_DMA == 0

VM_PAGE_SEG_DMA32 == 1

VM_PAGE_SEG_DIRECTMAP == 2

VM_PAGE_SEG_HIGHMEM == 3

VM_PAGE_SEL_DMA == 0

VM_PAGE_SEL_DMA32 == 1

VM_PAGE_SEL_DIRECTMAP == 2

VM_PAGE_SEL_HIGHMEM == 3

VM_PT_FREE == "FREE"

VM_PT_RESERVED == "RESERVED"

VM_PT_TABLE == "TABLE"

VM_PT_PMAP == "PMAP"

VM_PT_KERNEL == "KERNEL"

\* sizeof(struct vm_page), in bytes.
SIZEOF_VM_PAGE == 64

\* Number of processors (the dimension of vm_page_seg.cpu_pools).
NCPUS == 2

(***************************************************************************)
(* Bounds of the model.                                                    *)
(***************************************************************************)
\* VM_PAGE_CPU_POOL_RATIO is 1024 in the source: a pool of more than one
\* page needs a segment of 2048 frames.  The model divides by PoolRatio
\* instead, so that segments of a few frames get pools of 1 and 2 pages.
PoolRatio == 2

\* Highest order a caller of vm_page_alloc_pa asks for.
MaxOrder == 1

\* Largest number of blocks callers hold at once.
MaxHeld == 2

\* Physical addresses looked up: those of the page frames 0 .. MaxProbeFrame.
MaxProbeFrame == 11

\* The memory maps the boot loader passes have MaxMapSize entries, with base
\* addresses 0 .. MaxBase and lengths 0 .. MaxLength.
MaxMapSize == 3

MaxBase == 3

MaxLength == 4

\* The bootstrap heap has up to MaxHeapPages pages and biosmem_bootalloc is
\* called up to MaxBootallocs times.
MaxHeapPages == 3

MaxBootallocs == 3

\* The limits of the segments are SegFrames page frames apart.
SegFrames == 2

\* Boot data start up to MaxBootAddr half pages from 0 and are up to
\* MaxDataHalves half pages long; upper memory has up to MaxUpper times
\* 2 KiB.
MaxBootAddr == 11

MaxDataHalves == 3

MaxUpper == 16

CPUs == 0 .. NCPUS - 1

\* The kernel does not preempt a thread inside the allocator (thread_pin
\* and thread_unpin are empty): at any time one thread per processor is in
\* vm_page_alloc_pa or vm_page_free_pa.  Thread t runs on processor t - 1.
Threads == 1 .. NCPUS

cpu_number(t) == t - 1

Orders == 0 .. MaxOrder

Selectors == {VM_PAGE_SEL_DMA, VM_PAGE_SEL_DIRECTMAP}

\* The calls of vm_page_alloc_pa: <<order, selector, type>>.  Pages of any
\* order are allocated as kernel memory from either selector; page table
\* pages are single pages of the direct mapping.
AllocInputs ==
    {<<order, selector, VM_PT_KERNEL>> : order \in Orders,
                                         selector \in Selectors}
        \cup {<<0, VM_PAGE_SEL_DIRECTMAP, VM_PT_PMAP>>}

\* The calls made while other processors are inside the allocator.
ConcurrentInputs ==
    {<<order, VM_PAGE_SEL_DIRECTMAP, VM_PT_KERNEL>> : order \in Orders}

NULL == -1

NoThread == 0

NoFatal == "none"

\* unsigned int arithmetic wraps; the modulus stands for 2^32, which is
\* beyond the integers of the model checker.
UINT_MOD == 1073741824

(***************************************************************************)
(* Arithmetic helpers.                                                     *)
(***************************************************************************)
PAGE_SIZE == 2 ^ PAGE_SHIFT

vm_page_ptoa(page) == page * PAGE_SIZE

vm_page_atop(addr) == addr \div PAGE_SIZE

vm_page_round(addr) == ((addr + PAGE_SIZE - 1) \div PAGE_SIZE) * PAGE_SIZE

vm_page_aligned(addr) == addr % PAGE_SIZE = 0

MIN(a, b) == IF a < b THEN a ELSE b

\* a ^ b, bit by bit.
RECURSIVE BitXor(_, _)
BitXor(a, b) ==
    IF a = 0 THEN b
    ELSE IF b = 0 THEN a
    ELSE ((a + b) % 2) + 2 * BitXor(a \div 2, b \div 2)

\* a & ~b, bit by bit.
RECURSIVE BitAndNot(_, _)
BitAndNot(a, b) ==
    IF a = 0 THEN 0
    ELSE (IF b % 2 = 1 THEN 0 ELSE a % 2) + 2 * BitAndNot(a \div 2, b \div 2)

\* Faulty variant: a is left as it is.
BitAndNeg_unmasked(a, b) == a

\* a & -b in two's complement of any width that holds a: -b keeps the bits
\* of b up to and including its lowest set bit and inverts those above.
RECURSIVE BitAndNeg(_, _)
BitAndNeg(a, b) ==
    IF a = 0 \/ b = 0 THEN 0
    ELSE IF b % 2 = 1 THEN (a % 2) + 2 * BitAndNot(a \div 2, b \div 2)
    ELSE 2 * BitAndNeg(a \div 2, b \div 2)

\* The sequence s without its element at position n.
SeqRemoveAt(s, n) == SubSeq(s, 1, n - 1) \o SubSeq(s, n + 1, Len(s))

\* list_remove(&page->node): the list without the node of page.
list_remove(blocks, page) ==
    IF \E n \in 1 .. Len(blocks) : blocks[n] = page
    THEN SeqRemoveAt(blocks, CHOOSE n \in 1 .. Len(blocks) : blocks[n] = page)
    ELSE blocks

list_insert_head(blocks, page) == <<page>> \o blocks

list_first_entry(blocks) == Head(blocks)

(***************************************************************************)
(* Page descriptors and free lists.                                        *)
(***************************************************************************)
\* Faulty variant: every descriptor names segment 0.
vm_page_init_pa_seg_zero(seg_index, pa) ==
    [type |-> VM_PT_RESERVED, seg_index |-> 0,
     order |-> VM_PAGE_ORDER_UNLISTED, phys_addr |-> pa]

vm_page_init_pa(seg_index, pa) ==
    [type |-> VM_PT_RESERVED, seg_index |-> seg_index,
     order |-> VM_PAGE_ORDER_UNLISTED, phys_addr |-> pa]

\* Faulty variant: the type is given to order descriptors, not 2^order.
vm_page_set_type_order_pages(pages, page, order, type) ==
    [k \in DOMAIN pages |->
        IF page <= k /\ k < page + order
        THEN [pages[k] EXCEPT !.type = type]
        ELSE pages[k]]

vm_page_set_type(pages, page, order, type) ==
    [k \in DOMAIN pages |->
        IF page <= k /\ k < page + 2 ^ order
        THEN [pages[k] EXCEPT !.type = type]
        ELSE pages[k]]

vm_page_free_list_init == [size |-> 0, blocks |-> <<>>]

\* assert(page->order == VM_PAGE_ORDER_UNLISTED) is the caller's ok.
vm_page_free_list_insert(free_list, page) ==
    [size |-> free_list.size + 1,
     blocks |-> list_insert_head(free_list.blocks, page)]

\* Faulty variant: the size is decremented, the node stays linked.
vm_page_free_list_remove_still_linked(free_list, page) ==
    [size |-> free_list.size - 1, blocks |-> free_list.blocks]

\* assert(page->order != VM_PAGE_ORDER_UNLISTED) is the caller's ok.
vm_page_free_list_remove(free_list, page) ==
    [size |-> free_list.size - 1,
     blocks |-> list_remove(free_list.blocks, page)]

(***************************************************************************)
(* The buddy system of one segment.                                        *)
(***************************************************************************)
\* Faulty variant: the upper halves of a split block are not put back on
\* the free lists.
SplitBlock_halves_lost(seg, page, i, order, ok) == [seg |-> seg, ok |-> ok]

\* The split loop of vm_page_seg_alloc_from_buddy: while (i > order).
RECURSIVE SplitBlock(_, _, _, _, _)
SplitBlock(seg, page, i, order, ok) ==
    IF i > order
    THEN LET j == i - 1
             buddy == page + 2 ^ j
         IN  SplitBlock(
                 [seg EXCEPT
                     !.free_lists[j] = vm_page_free_list_insert(@, buddy),
                     !.pages[buddy].order = j],
                 page, j, order,
                 ok /\ seg.pages[buddy].order = VM_PAGE_ORDER_UNLISTED)
    ELSE [seg |-> seg, ok |-> ok]

\* Faulty variant: the search stops at the highest order whose list is not
\* empty.
FirstFreeList_highest(seg, i) ==
    LET nonempty == {k \in i .. VM_PAGE_NR_FREE_LISTS - 1 :
                        seg.free_lists[k].size # 0}
    IN  IF nonempty = {}
        THEN VM_PAGE_NR_FREE_LISTS
        ELSE CHOOSE k \in nonempty : \A l \in nonempty : l <= k

\* The first order i >= order whose free list is not empty, or
\* VM_PAGE_NR_FREE_LISTS.
RECURSIVE FirstFreeList(_, _)
FirstFreeList(seg, i) ==
    IF i < VM_PAGE_NR_FREE_LISTS /\ seg.free_lists[i].size = 0
    THEN FirstFreeList(seg, i + 1)
    ELSE i

\* Faulty variant: nr_free_pages goes down by one page whatever the order.
vm_page_seg_alloc_from_buddy_one_page(seg, order) ==
    LET i == FirstFreeList(seg, order)
    IN  IF i = VM_PAGE_NR_FREE_LISTS
        THEN [seg |-> seg, page |-> NULL, ok |-> order < VM_PAGE_NR_FREE_LISTS]
        ELSE LET page == list_first_entry(seg.free_lists[i].blocks)
                 removed ==
                     [seg EXCEPT
                         !.free_lists[i] = vm_page_free_list_remove(@, page),
                         !.pages[page].order = VM_PAGE_ORDER_UNLISTED]
                 split == SplitBlock(removed, page, i, order,
                              seg.pages[page].order # VM_PAGE_ORDER_UNLISTED)
             IN  [seg |-> [split.seg EXCEPT !.nr_free_pages = @ - 1],
                  page |-> page,
                  ok |-> split.ok /\ order < VM_PAGE_NR_FREE_LISTS]

vm_page_seg_alloc_from_buddy(seg, order) ==
    LET i == FirstFreeList(seg, order)
    IN  IF i = VM_PAGE_NR_FREE_LISTS
        THEN [seg |-> seg, page |-> NULL, ok |-> order < VM_PAGE_NR_FREE_LISTS]
        ELSE LET page == list_first_entry(seg.free_lists[i].blocks)
                 removed ==
                     [seg EXCEPT
                         !.free_lists[i] = vm_page_free_list_remove(@, page),
                         !.pages[page].order = VM_PAGE_ORDER_UNLISTED]
                 split == SplitBlock(removed, page, i, order,
                              seg.pages[page].order # VM_PAGE_ORDER_UNLISTED)
             IN  [seg |-> [split.seg EXCEPT
                              !.nr_free_pages = @ - 2 ^ order],
                  page |-> page,
                  ok |-> split.ok /\ order < VM_PAGE_NR_FREE_LISTS]

\* Faulty variant: the buddy is merged whatever its order.
RECURSIVE MergeBlock_any_buddy(_, _, _, _, _)
MergeBlock_any_buddy(seg, page, pa, order, ok) ==
    IF order < VM_PAGE_NR_FREE_LISTS - 1
    THEN LET buddy_pa == BitXor(pa, vm_page_ptoa(2 ^ order))
         IN  IF buddy_pa < seg.start \/ buddy_pa >= seg.end
             THEN [seg |-> seg, page |-> page, order |-> order, ok |-> ok]
             ELSE LET buddy == vm_page_atop(buddy_pa - seg.start)
                      norder == order + 1
                      npa == BitAndNeg(pa, vm_page_ptoa(2 ^ norder))
                  IN  IF npa < seg.start
                      THEN [seg |-> seg, page |-> page, order |-> order,
                            ok |-> ok]
                      ELSE MergeBlock_any_buddy(
                               [seg EXCEPT
                                   !.free_lists[order] =
                                       vm_page_free_list_remove(@, buddy),
                                   !.pages[buddy].order =
                                       VM_PAGE_ORDER_UNLISTED],
                               vm_page_atop(npa - seg.start),
                               npa, norder, ok)
    ELSE [seg |-> seg, page |-> page, order |-> order, ok |-> ok]

\* The merge loop of vm_page_seg_free_to_buddy.
RECURSIVE MergeBlock(_, _, _, _, _)
MergeBlock(seg, page, pa, order, ok) ==
    IF order < VM_PAGE_NR_FREE_LISTS - 1
    THEN LET buddy_pa == BitXor(pa, vm_page_ptoa(2 ^ order))
         IN  IF buddy_pa < seg.start \/ buddy_pa >= seg.end
             THEN [seg |-> seg, page |-> page, order |-> order, ok |-> ok]
             ELSE LET buddy == vm_page_atop(buddy_pa - seg.start)
                  IN  IF seg.pages[buddy].order # order
                      THEN [seg |-> seg, page |-> page, order |-> order,
                            ok |-> ok]
                      ELSE LET norder == order + 1
                               npa == BitAndNeg(pa, vm_page_ptoa(2 ^ norder))
                           IN  MergeBlock(
                                   [seg EXCEPT
                                       !.free_lists[order] =
                                           vm_page_free_list_remove(@, buddy),
                                       !.pages[buddy].order =
                                           VM_PAGE_ORDER_UNLISTED],
                                   vm_page_atop(npa - seg.start),
                                   npa, norder, ok)
    ELSE [seg |-> seg, page |-> page, order |-> order, ok |-> ok]

\* Faulty variant: the block goes on the list of its order, unmerged.
vm_page_seg_free_to_buddy_unmerged(seg, page, order) ==
    LET asserts == /\ page >= 0
                   /\ page < seg.pages_end
                   /\ order < VM_PAGE_NR_FREE_LISTS
    IN  IF ~asserts \/ seg.pages[page].order # VM_PAGE_ORDER_UNLISTED
        THEN [seg |-> seg, ok |-> FALSE]
        ELSE [seg |-> [seg EXCEPT
                          !.free_lists[order] =
                              vm_page_free_list_insert(@, page),
                          !.pages[page].order = order,
                          !.nr_free_pages = @ + 2 ^ order],
              ok |-> TRUE]

\* Faulty variant: nr_free_pages goes up by the size of the merged block.
vm_page_seg_free_to_buddy_merged_size(seg, page, order) ==
    LET asserts == /\ page >= 0
                   /\ page < seg.pages_end
                   /\ order < VM_PAGE_NR_FREE_LISTS
    IN  IF ~asserts \/ seg.pages[page].order # VM_PAGE_ORDER_UNLISTED
        THEN [seg |-> seg, ok |-> FALSE]
        ELSE LET m == MergeBlock(seg, page, seg.pages[page].phys_addr,
                                 order, TRUE)
             IN  [seg |-> [m.seg EXCEPT
                              !.free_lists[m.order] =
                                  vm_page_free_list_insert(@, m.page),
                              !.pages[m.page].order = m.order,
                              !.nr_free_pages = @ + 2 ^ m.order],
                  ok |-> m.ok /\ m.seg.pages[m.page].order
                                    = VM_PAGE_ORDER_UNLISTED]

vm_page_seg_free_to_buddy(seg, page, order) ==
    LET asserts == /\ page >= 0
                   /\ page < seg.pages_end
                   /\ order < VM_PAGE_NR_FREE_LISTS
    IN  IF ~asserts \/ seg.pages[page].order # VM_PAGE_ORDER_UNLISTED
        THEN [seg |-> seg, ok |-> FALSE]
        ELSE LET nr_pages == 2 ^ order
                 m == MergeBlock(seg, page, seg.pages[page].phys_addr,
                                 order, TRUE)
             IN  [seg |-> [m.seg EXCEPT
                              !.free_lists[m.order] =
                                  vm_page_free_list_insert(@, m.page),
                              !.pages[m.page].order = m.order,
                              !.nr_free_pages = @ + nr_pages],
                  ok |-> m.ok /\ m.seg.pages[m.page].order
                                    = VM_PAGE_ORDER_UNLISTED]

(***************************************************************************)
(* The per-CPU pools of one segment.                                       *)
(***************************************************************************)
vm_page_cpu_pool_init(size) ==
    [lock |-> NoThread, size |-> size,
     transfer_size |-> (size + VM_PAGE_CPU_POOL_TRANSFER_RATIO - 1)
                           \div VM_PAGE_CPU_POOL_TRANSFER_RATIO,
     nr_pages |-> 0, pages |-> <<>>]

\* Faulty variant: the page popped stays linked in the pool.
vm_page_cpu_pool_pop_still_linked(cpu_pool) ==
    IF cpu_pool.nr_pages = 0 \/ cpu_pool.pages = <<>>
    THEN [cpu_pool |-> cpu_pool, page |-> NULL, ok |-> FALSE]
    ELSE [cpu_pool |-> [cpu_pool EXCEPT !.nr_pages = @ - 1],
          page |-> list_first_entry(cpu_pool.pages), ok |-> TRUE]

vm_page_cpu_pool_pop(cpu_pool) ==
    IF cpu_pool.nr_pages = 0 \/ cpu_pool.pages = <<>>
    THEN [cpu_pool |-> cpu_pool, page |-> NULL, ok |-> FALSE]
    ELSE LET page == list_first_entry(cpu_pool.pages)
         IN  [cpu_pool |-> [cpu_pool EXCEPT
                               !.nr_pages = @ - 1,
                               !.pages = list_remove(@, page)],
              page |-> page, ok |-> TRUE]

vm_page_cpu_pool_push(cpu_pool, page) ==
    [cpu_pool |-> [cpu_pool EXCEPT
                      !.nr_pages = @ + 1,
                      !.pages = list_insert_head(@, page)],
     ok |-> cpu_pool.nr_pages < cpu_pool.size]

\* The loop of vm_page_cpu_pool_fill: for (i = 0; i < transfer_size; i++).
RECURSIVE FillLoop(_, _, _, _)
FillLoop(seg, cpu, i, ok) ==
    IF i < seg.cpu_pools[cpu].transfer_size
    THEN LET a == vm_page_seg_alloc_from_buddy(seg, 0)
         IN  IF a.page = NULL
             THEN [seg |-> seg, filled |-> i, ok |-> ok /\ a.ok]
             ELSE LET p == vm_page_cpu_pool_push(a.seg.cpu_pools[cpu], a.page)
                  IN  FillLoop([a.seg EXCEPT !.cpu_pools[cpu] = p.cpu_pool],
                               cpu, i + 1, ok /\ a.ok /\ p.ok)
    ELSE [seg |-> seg, filled |-> i, ok |-> ok]

\* Faulty variant: the pool is filled, the count returned is 0.
vm_page_cpu_pool_fill_returns_zero(seg, cpu) ==
    [FillLoop(seg, cpu, 0, seg.cpu_pools[cpu].nr_pages = 0)
        EXCEPT !.filled = 0]

\* The body of vm_page_cpu_pool_fill between simple_lock(&seg->lock) and
\* simple_unlock(&seg->lock), on the pool of processor cpu.
vm_page_cpu_pool_fill(seg, cpu) ==
    FillLoop(seg, cpu, 0, seg.cpu_pools[cpu].nr_pages = 0)

\* The loop of vm_page_cpu_pool_drain: for (i = transfer_size; i > 0; i--).
RECURSIVE DrainLoop(_, _, _, _)
DrainLoop(seg, cpu, i, ok) ==
    IF i > 0
    THEN LET p == vm_page_cpu_pool_pop(seg.cpu_pools[cpu])
         IN  IF ~p.ok
             THEN [seg |-> seg, ok |-> FALSE]
             ELSE LET f == vm_page_seg_free_to_buddy(
                               [seg EXCEPT !.cpu_pools[cpu] = p.cpu_pool],
                               p.page, 0)
                  IN  DrainLoop(f.seg, cpu, i - 1, ok /\ f.ok)
    ELSE [seg |-> seg, ok |-> ok]

\* Faulty variant: one page is moved back whatever transfer_size is.
vm_page_cpu_pool_drain_one_page(seg, cpu) ==
    DrainLoop(seg, cpu, 1,
              seg.cpu_pools[cpu].nr_pages = seg.cpu_pools[cpu].size)

\* Faulty variant: nothing is moved back to the free lists.
vm_page_cpu_pool_drain_nothing(seg, cpu) == [seg |-> seg, ok |-> TRUE]

\* The body of vm_page_cpu_pool_drain between the lock and the unlock.
vm_page_cpu_pool_drain(seg, cpu) ==
    DrainLoop(seg, cpu, seg.cpu_pools[cpu].transfer_size,
              seg.cpu_pools[cpu].nr_pages = seg.cpu_pools[cpu].size)

(***************************************************************************)
(* Segments.                                                               *)
(***************************************************************************)
vm_page_seg_size(seg) == seg.end - seg.start

vm_page_seg_compute_pool_size(seg) ==
    LET size == vm_page_atop(vm_page_seg_size(seg)) \div PoolRatio
    IN  IF size = 0 THEN 1
        ELSE IF size > VM_PAGE_CPU_POOL_MAX_SIZE
        THEN VM_PAGE_CPU_POOL_MAX_SIZE
        ELSE size

\* A struct vm_page_seg of the zero-initialised table vm_page_segs.
ZeroSeg ==
    [cpu_pools |-> [c \in CPUs |->
                       [lock |-> NoThread, size |-> 0, transfer_size |-> 0,
                        nr_pages |-> 0, pages |-> <<>>]],
     start |-> 0, end |-> 0, pages |-> <<>>, pages_end |-> 0,
     lock |-> NoThread,
     free_lists |-> [i \in 0 .. VM_PAGE_NR_FREE_LISTS - 1 |->
                        vm_page_free_list_init],
     nr_free_pages |-> 0]

vm_page_seg_init(seg_index, start, end) ==
    LET bounds == [start |-> start, end |-> end]
        pool_size == vm_page_seg_compute_pool_size(bounds)
        nr == vm_page_atop(vm_page_seg_size(bounds))
    IN  [cpu_pools |-> [c \in CPUs |-> vm_page_cpu_pool_init(pool_size)],
         start |-> start, end |-> end,
         pages |-> [k \in 0 .. nr - 1 |->
                       vm_page_init_pa(seg_index, start + vm_page_ptoa(k))],
         pages_end |-> nr,
         lock |-> NoThread,
         free_lists |-> [i \in 0 .. VM_PAGE_NR_FREE_LISTS - 1 |->
                            vm_page_free_list_init],
         nr_free_pages |-> 0]

ZeroBootSeg == [start |-> 0, end |-> 0, avail_start |-> 0, avail_end |-> 0]

vm_page_boot_seg_loaded(seg) == seg.end # 0

vm_page_boot_seg_size(seg) == seg.end - seg.start

vm_page_boot_seg_avail_size(seg) == seg.avail_end - seg.avail_start

\* The switch of vm_page_select_alloc_seg: the segment a selector names.
SelectorSegIndex(selector) ==
    CASE selector = VM_PAGE_SEL_DMA -> VM_PAGE_SEG_DMA
      [] selector = VM_PAGE_SEL_DMA32 -> VM_PAGE_SEG_DMA32
      [] selector = VM_PAGE_SEL_DIRECTMAP -> VM_PAGE_SEG_DIRECTMAP
      [] selector = VM_PAGE_SEL_HIGHMEM -> VM_PAGE_SEG_HIGHMEM

\* Faulty variant: the walk starts at the highest loaded segment whatever
\* the selector.
vm_page_select_alloc_seg_highest(segs_size, selector) ==
    (segs_size - 1) % UINT_MOD

\* MIN(vm_page_segs_size - 1, seg_index) in unsigned arithmetic; the
\* selectors of the model are valid, so the switch never panics.
vm_page_select_alloc_seg(segs_size, selector) ==
    MIN((segs_size - 1) % UINT_MOD, SelectorSegIndex(selector))

\* Faulty variant: the walk goes to the next higher segment.
UnsignedDec_upwards(i) == i + 1

\* i-- on an unsigned int.
UnsignedDec(i) == (i - 1) % UINT_MOD

\* The loop of vm_page_bootalloc: the index of the first boot segment, from
\* i downwards, whose available range holds size bytes, or NULL.
RECURSIVE BootallocSeg(_, _, _, _)
BootallocSeg(boot_segs, segs_size, i, size) ==
    IF i < segs_size
    THEN IF size <= vm_page_boot_seg_avail_size(boot_segs[i])
         THEN i
         ELSE BootallocSeg(boot_segs, segs_size, UnsignedDec(i), size)
    ELSE NULL

\* vm_page_bootalloc: the boot segments after the allocation and the
\* address, or pa = NULL for panic("vm_page: no physical memory available").
vm_page_bootalloc(boot_segs, segs_size, size) ==
    LET i == BootallocSeg(boot_segs, segs_size,
                 vm_page_select_alloc_seg(segs_size, VM_PAGE_SEL_DIRECTMAP),
                 size)
    IN  IF i = NULL
        THEN [boot_segs |-> boot_segs, pa |-> NULL]
        ELSE [boot_segs |-> [boot_segs EXCEPT
                                ![i].avail_start = @ + vm_page_round(size)],
              pa |-> boot_segs[i].avail_start]

\* vm_page_lookup_pa: <<segment index, page>> or NULL_PAGE.
NULL_PAGE == <<NULL, NULL>>

\* The loop of vm_page_lookup_pa from segment i on: <<segment, page number>>
\* of the descriptor returned, or NULL_PAGE.
RECURSIVE LookupFrom(_, _, _, _)
LookupFrom(segs, segs_size, i, pa) ==
    IF i < segs_size
    THEN IF pa >= segs[i].start /\ pa < segs[i].end
         THEN <<i, vm_page_atop(pa - segs[i].start)>>
         ELSE LookupFrom(segs, segs_size, i + 1, pa)
    ELSE NULL_PAGE

vm_page_lookup_pa(segs, segs_size, pa) == LookupFrom(segs, segs_size, 0, pa)

(***************************************************************************)
(* biosmem.c: the memory map.  A map is the sequence of the first          *)
(* biosmem_map_size entries of the array biosmem_map; entry number k of    *)
(* the code is element k + 1.  Addresses are uint64_t: the arithmetic is   *)
(* modulo UINT64_MOD.                                                      *)
(***************************************************************************)
BIOSMEM_TYPE_AVAILABLE == 1

BIOSMEM_TYPE_RESERVED == 2

\* BIOSMEM_MAX_MAP_SIZE is 128 in the code; the model scales it.
BIOSMEM_MAX_MAP_SIZE == MaxMapSize

\* ARRAY_SIZE(biosmem_map)
BIOSMEM_MAP_ARRAY_SIZE == BIOSMEM_MAX_MAP_SIZE * 2

\* Stands for 2^64, which is beyond the integers of the model checker: the
\* sum of a base and a length wraps past it.
UINT64_MOD == 1073741824

MAX(a, b) == IF a > b THEN a ELSE b

biosmem_map_entry_is_invalid(entry) ==
    (entry.base_addr + entry.length) % UINT64_MOD <= entry.base_addr

\* The loop of biosmem_map_filter from entry i on.
RECURSIVE FilterLoop(_, _)
FilterLoop(map, i) ==
    IF i < Len(map)
    THEN IF biosmem_map_entry_is_invalid(map[i + 1])
         THEN FilterLoop(SeqRemoveAt(map, i + 1), i)
         ELSE FilterLoop(map, i + 1)
    ELSE map

biosmem_map_filter(map) == FilterLoop(map, 0)

\* The inner loop of biosmem_map_sort: entries j, j - 1, ... move up one
\* place until one has a lower base address than tmp, which goes above it.
\* j counts down through 0 to UINT_MAX, which ends the loop: here -1.
RECURSIVE SortShift(_, _, _)
SortShift(map, j, tmp) ==
    IF j >= 0 /\ ~(map[j + 1].base_addr < tmp.base_addr)
    THEN SortShift([map EXCEPT ![j + 2] = map[j + 1]], j - 1, tmp)
    ELSE [map EXCEPT ![j + 2] = tmp]

RECURSIVE SortLoop(_, _)
SortLoop(map, i) ==
    IF i < Len(map)
    THEN SortLoop(SortShift(map, i - 1, map[i + 1]), i + 1)
    ELSE map

biosmem_map_sort(map) == SortLoop(map, 1)

\* One pass of the while loop of biosmem_map_adjust for entries a = i and
\* b = j, a_end being the end of a computed when the for loop reached i.
\* The result is the map, the next j, and whether the code panics.
AdjustStep(map, i, j, a_end) ==
    LET a == map[i + 1]
        b == map[j + 1]
        b_end == (b.base_addr + b.length) % UINT64_MOD
    IN  IF a.base_addr >= b_end \/ a_end <= b.base_addr
        THEN [map |-> map, j |-> j + 1, panic |-> FALSE]
        ELSE
        LET first_is_a == a.base_addr < b.base_addr
            first == IF first_is_a THEN a ELSE b
            second == IF first_is_a THEN b ELSE a
            last_end == IF a_end > b_end THEN a_end ELSE b_end
            last_type == IF a_end > b_end THEN a.type ELSE b.type
            tmp_base == second.base_addr
            tmp_length == (MIN(a_end, b_end) - tmp_base) % UINT64_MOD
            tmp == [base_addr |-> tmp_base, length |-> tmp_length,
                    type |-> MAX(a.type, b.type)]
            first1 == [first EXCEPT
                          !.length = (tmp_base - first.base_addr) % UINT64_MOD]
            second_base == (second.base_addr + tmp_length) % UINT64_MOD
            second1 == [base_addr |-> second_base,
                        length |-> (last_end - second_base) % UINT64_MOD,
                        type |-> last_type]
            a1 == IF first_is_a THEN first1 ELSE second1
            b1 == IF first_is_a THEN second1 ELSE first1
            map1 == [map EXCEPT ![i + 1] = a1, ![j + 1] = b1]
            \* first->base_addr lowered to tmp.base_addr, first->length
            \* grown by tmp.length
            merged(e) ==
                [e EXCEPT !.base_addr = MIN(e.base_addr, tmp_base),
                          !.length = (e.length + tmp_length) % UINT64_MOD]
        IN  IF /\ biosmem_map_entry_is_invalid(a1)
               /\ biosmem_map_entry_is_invalid(b1)
            THEN [map |-> SeqRemoveAt([map1 EXCEPT ![i + 1] = tmp], j + 1),
                  j |-> j, panic |-> FALSE]
            ELSE IF biosmem_map_entry_is_invalid(a1)
            THEN [map |-> [map1 EXCEPT ![i + 1] = tmp],
                  j |-> j + 1, panic |-> FALSE]
            ELSE IF biosmem_map_entry_is_invalid(b1)
            THEN [map |-> [map1 EXCEPT ![j + 1] = tmp],
                  j |-> j + 1, panic |-> FALSE]
            ELSE IF tmp.type = a1.type
            THEN [map |-> [map1 EXCEPT ![i + 1] = merged(a1)],
                  j |-> j + 1, panic |-> FALSE]
            ELSE IF tmp.type = b1.type
            THEN [map |-> [map1 EXCEPT ![j + 1] = merged(b1)],
                  j |-> j + 1, panic |-> FALSE]
            ELSE IF Len(map1) >= BIOSMEM_MAP_ARRAY_SIZE
            THEN [map |-> map1, j |-> j, panic |-> TRUE]
            ELSE [map |-> Append(map1, tmp), j |-> j + 1, panic |-> FALSE]

\* while (j < biosmem_map_size)
RECURSIVE AdjustInner(_, _, _, _)
AdjustInner(map, i, j, a_end) ==
    IF j < Len(map)
    THEN LET r == AdjustStep(map, i, j, a_end)
         IN  IF r.panic
             THEN r
             ELSE AdjustInner(r.map, i, r.j, a_end)
    ELSE [map |-> map, j |-> j, panic |-> FALSE]

\* for (i = 0; i < biosmem_map_size; i++)
RECURSIVE AdjustOuter(_, _)
AdjustOuter(map, i) ==
    IF i < Len(map)
    THEN LET a == map[i + 1]
             r == AdjustInner(map, i, i + 1,
                              (a.base_addr + a.length) % UINT64_MOD)
         IN  IF r.panic
             THEN r
             ELSE AdjustOuter(r.map, i + 1)
    ELSE [map |-> map, j |-> 0, panic |-> FALSE]

\* biosmem_map_adjust: the map it leaves and whether it panics with
\* "biosmem: too many memory map entries".
biosmem_map_adjust(map) ==
    LET r == AdjustOuter(biosmem_map_filter(map), 0)
    IN  IF r.panic
        THEN [map |-> r.map, panic |-> TRUE]
        ELSE [map |-> biosmem_map_sort(r.map), panic |-> FALSE]

(***************************************************************************)
(* State.                                                                  *)
(***************************************************************************)
VARIABLES
    vm_page_is_ready,   \* vm_page_is_ready
    vm_page_segs_size,  \* number of loaded segments
    vm_page_boot_segs,  \* bootstrap segment table
    vm_page_segs,       \* segment table
    fatal,              \* NoFatal, a panic message or "assertion"
    pc,                 \* where each thread is in vm_page_alloc_pa/free_pa
    th,                 \* the arguments and locals of each thread's call
    held,               \* blocks returned by vm_page_alloc_pa, not yet freed
    start,              \* history: the free lists when the first call began
    hist,               \* history: the last call made with all others idle
    biosmem_map,        \* the first biosmem_map_size entries of biosmem_map
    biosmem_heap_start, \* bootstrap heap
    biosmem_heap_cur,
    biosmem_heap_end,
    biosmem_segments,   \* the segments biosmem_bootstrap_common has found
    phys_last_addr,     \* end of the memory of the direct mapping
    boot                \* the boot environment, and history of the boot calls

vars == <<vm_page_is_ready, vm_page_segs_size, vm_page_boot_segs,
          vm_page_segs, fatal, pc, th, held, start, hist,
          biosmem_map, biosmem_heap_start, biosmem_heap_cur,
          biosmem_heap_end, biosmem_segments, phys_last_addr, boot>>

\* The variables of biosmem.c, and of the threads that call vm_page.c.
biosmem_vars == <<biosmem_map, biosmem_heap_start, biosmem_heap_cur,
                  biosmem_heap_end, biosmem_segments, phys_last_addr, boot>>

thread_vars == <<pc, th, held, start, hist>>

SegIndexes == 0 .. VM_PAGE_MAX_SEGS - 1

NoCall ==
    [op |-> "none", order |-> 0, selector |-> 0, type |-> "none", i |-> 0,
     cpu |-> 0, page |-> NULL, tried |-> <<>>]

NoHist ==
    [stage |-> "none", thread |-> NoThread, segs |-> <<>>, seg |-> 0,
     page |-> NULL, order |-> 0]

NoStart == [begun |-> FALSE, order0 |-> FALSE, sizes |-> <<>>]

\* The size counters of the free lists of every segment.
FreeListSizes(segs) ==
    [s \in SegIndexes |->
        [i \in 0 .. VM_PAGE_NR_FREE_LISTS - 1 |-> segs[s].free_lists[i].size]]

\* boot: whether the kernel is built for the hypervisor (MACH_HYP), the map
\* the boot loader passed, whether biosmem_map_adjust has run, the blocks
\* biosmem_bootalloc has returned, and its last call.
NoBootalloc == [nr_pages |-> 0, cur |-> 0, addr |-> NULL, ready |-> 0]

\* No multiboot information, no kernel image.
NoMbi ==
    [flags |-> {}, mem_lower |-> 0, mem_upper |-> 0, mmap |-> <<>>,
     cmdline |-> 0, cmdline_len |-> 0, unused0 |-> 0, mods_addr |-> 0,
     mods |-> <<>>]

NoBoot ==
    [mach_hyp |-> FALSE, mmap |-> <<>>, adjusted |-> FALSE, allocs |-> <<>>,
     last |-> NoBootalloc, mbi |-> NoMbi, kernel |-> [start |-> 0, end |-> 0],
     stage |-> "reset"]

(***************************************************************************)
(* biosmem.c: the segments, the boot data and the bootstrap heap.          *)
(* Addresses are in bytes.  The limits of the segments come from the       *)
(* machine headers (not part of the sources at hand).  In the model lower  *)
(* memory has three page frames, the first one left to the BIOS, and the   *)
(* limits are SegFrames page frames apart above it.                        *)
(***************************************************************************)
BIOSMEM_BASE == PAGE_SIZE

BIOSMEM_END == 3 * PAGE_SIZE

VM_PAGE_DMA_LIMIT == BIOSMEM_END + vm_page_ptoa(SegFrames)

VM_PAGE_DMA32_LIMIT == BIOSMEM_END + vm_page_ptoa(2 * SegFrames)

VM_PAGE_DIRECTMAP_LIMIT == BIOSMEM_END + vm_page_ptoa(3 * SegFrames)

VM_PAGE_HIGHMEM_LIMIT == BIOSMEM_END + vm_page_ptoa(4 * SegFrames)

\* sizeof(struct multiboot_raw_module), in bytes.
SIZEOF_MULTIBOOT_RAW_MODULE == 16

vm_page_trunc(addr) == addr - (addr % PAGE_SIZE)

\* biosmem_map_build_simple: the map made of mem_lower and mem_upper, both
\* in KiB.
biosmem_map_build_simple(mbi) ==
    <<[base_addr |-> 0, length |-> mbi.mem_lower * 1024,
       type |-> BIOSMEM_TYPE_AVAILABLE],
      [base_addr |-> BIOSMEM_END, length |-> mbi.mem_upper * 1024,
       type |-> BIOSMEM_TYPE_AVAILABLE]>>

\* biosmem_map_build: the first BIOSMEM_MAX_MAP_SIZE entries of the map of
\* the boot loader.
biosmem_map_build(mbi) ==
    SubSeq(mbi.mmap, 1, MIN(Len(mbi.mmap), BIOSMEM_MAX_MAP_SIZE))

\* The loop of biosmem_map_find_avail from entry k on; seg_start and
\* seg_end are NULL for (phys_addr_t)-1.
RECURSIVE FindAvailLoop(_, _, _, _, _, _)
FindAvailLoop(map, k, phys_start, phys_end, seg_start, seg_end) ==
    IF k > Len(map)
    THEN [seg_start |-> seg_start, seg_end |-> seg_end]
    ELSE IF map[k].type # BIOSMEM_TYPE_AVAILABLE
    THEN FindAvailLoop(map, k + 1, phys_start, phys_end, seg_start, seg_end)
    ELSE LET entry_start == vm_page_round(map[k].base_addr)
             entry_end == vm_page_trunc(
                        (map[k].base_addr + map[k].length) % UINT64_MOD)
         IN  IF entry_start >= phys_end
             THEN [seg_start |-> seg_start, seg_end |-> seg_end]
             ELSE IF entry_start < entry_end /\ entry_start < phys_end /\ entry_end > phys_start
             THEN FindAvailLoop(map, k + 1, phys_start, phys_end,
                                IF seg_start = NULL THEN entry_start ELSE seg_start,
                                entry_end)
             ELSE FindAvailLoop(map, k + 1, phys_start, phys_end,
                                seg_start, seg_end)

\* biosmem_map_find_avail(&phys_start, &phys_end): error is -1 or 0.
biosmem_map_find_avail(map, phys_start, phys_end) ==
    LET f == FindAvailLoop(map, 1, phys_start, phys_end, NULL, NULL)
    IN  IF f.seg_start = NULL \/ f.seg_end = NULL
        THEN [error |-> -1, phys_start |-> phys_start, phys_end |-> phys_end]
        ELSE [error |-> 0,
              phys_start |-> IF f.seg_start > phys_start
                             THEN f.seg_start ELSE phys_start,
              phys_end |-> IF f.seg_end < phys_end
                           THEN f.seg_end ELSE phys_end]

\* Faulty variant: every segment found moves last_addr.
BootstrapLastAddr_highmem(dma, dma32, directmap, highmem) ==
    IF dma32.error # 0 THEN dma.phys_end
    ELSE IF directmap.error # 0 THEN dma32.phys_end
    ELSE IF highmem.error # 0 THEN directmap.phys_end
    ELSE highmem.phys_end

\* last_addr at the label out of biosmem_bootstrap_common, from the results
\* of the four calls of biosmem_map_find_avail (the later ones are not made
\* once one has failed).
BootstrapLastAddr(dma, dma32, directmap, highmem) ==
    IF dma32.error # 0 THEN dma.phys_end
    ELSE IF directmap.error # 0 THEN dma32.phys_end
    ELSE directmap.phys_end

\* biosmem_bootstrap_common after biosmem_map_adjust, on the adjusted map:
\* the segments, phys_last_addr, and whether it panics.
biosmem_bootstrap_common(map) ==
    LET dma == biosmem_map_find_avail(map, BIOSMEM_BASE, VM_PAGE_DMA_LIMIT)
        dma32 == biosmem_map_find_avail(map, VM_PAGE_DMA_LIMIT,
                                        VM_PAGE_DMA32_LIMIT)
        directmap == biosmem_map_find_avail(map, VM_PAGE_DMA32_LIMIT,
                                            VM_PAGE_DIRECTMAP_LIMIT)
        highmem == biosmem_map_find_avail(map, VM_PAGE_DIRECTMAP_LIMIT,
                                          VM_PAGE_HIGHMEM_LIMIT)
        found == [s \in SegIndexes |->
                     CASE s = VM_PAGE_SEG_DMA -> TRUE
                       [] s = VM_PAGE_SEG_DMA32 -> dma32.error = 0
                       [] s = VM_PAGE_SEG_DIRECTMAP ->
                              dma32.error = 0 /\ directmap.error = 0
                       [] OTHER -> /\ dma32.error = 0
                                   /\ directmap.error = 0
                                   /\ highmem.error = 0]
        range == [s \in SegIndexes |->
                     CASE s = VM_PAGE_SEG_DMA -> dma
                       [] s = VM_PAGE_SEG_DMA32 -> dma32
                       [] s = VM_PAGE_SEG_DIRECTMAP -> directmap
                       [] OTHER -> highmem]
    IN  [panic |-> dma.error # 0,
         segments |-> [s \in SegIndexes |->
                          IF found[s]
                          THEN [ZeroBootSeg EXCEPT
                                   !.start = range[s].phys_start,
                                   !.end = range[s].phys_end]
                          ELSE ZeroBootSeg],
         phys_last_addr |-> BootstrapLastAddr(dma, dma32, directmap, highmem)]

\* biosmem_directmap_size
biosmem_directmap_size(segments) ==
    IF segments[VM_PAGE_SEG_DIRECTMAP].end
           - segments[VM_PAGE_SEG_DIRECTMAP].start # 0
    THEN segments[VM_PAGE_SEG_DIRECTMAP].end
    ELSE IF segments[VM_PAGE_SEG_DMA32].end
                - segments[VM_PAGE_SEG_DMA32].start # 0
    THEN segments[VM_PAGE_SEG_DMA32].end
    ELSE segments[VM_PAGE_SEG_DMA].end

\* The boot data in the order biosmem_find_boot_data visits them, as
\* <<data_start, data_end>>: the kernel, the command line, the module table,
\* the body and the command line of each module.  kernel is
\* [start |-> _start, end |-> _end], physical.  The boot loaders of the
\* model pass no ELF section headers.
BootData(mbi, kernel) ==
    <<<<kernel.start, kernel.end>>>>
    \o (IF "CMDLINE" \in mbi.flags /\ mbi.cmdline # 0
        THEN <<<<mbi.cmdline, mbi.cmdline + mbi.unused0>>>>
        ELSE <<>>)
    \o (IF "MODULES" \in mbi.flags
        THEN <<<<mbi.mods_addr,
                 mbi.mods_addr
                     + Len(mbi.mods) * SIZEOF_MULTIBOOT_RAW_MODULE>>>>
        ELSE <<>>)
    \o (IF "MODULES" \in mbi.flags /\ Len(mbi.mods) > 0
        THEN <<<<mbi.mods[1].mod_start, mbi.mods[1].mod_end>>>>
             \o (IF mbi.mods[1].string # 0
                 THEN <<<<mbi.mods[1].string,
                          mbi.mods[1].string + mbi.mods[1].reserved>>>>
                 ELSE <<>>)
        ELSE <<>>)

\* biosmem_find_boot_data_update over the boot data from number k on.
RECURSIVE FindBootDataLoop(_, _, _, _, _)
FindBootDataLoop(data, k, min, data_start, data_end) ==
    IF k > Len(data)
    THEN [start |-> data_start, end |-> data_end]
    ELSE IF min <= data[k][1] /\ data[k][1] < data_start
    THEN FindBootDataLoop(data, k + 1, min, data[k][1], data[k][2])
    ELSE FindBootDataLoop(data, k + 1, min, data_start, data_end)

\* biosmem_find_boot_data(mbi, min, max, &end): start is 0 when no boot
\* data is found, and end is then not set.
biosmem_find_boot_data(data, min, max) ==
    LET f == FindBootDataLoop(data, 1, min, max, NULL)
    IN  IF f.start = max THEN [start |-> 0, end |-> NULL] ELSE f

\* The loop of biosmem_setup_allocator: do ... while (next != 0).
RECURSIVE SetupAllocatorLoop(_, _, _, _, _)
SetupAllocatorLoop(data, mem_end, next, max_heap_start, max_heap_end) ==
    LET heap_start == next
        f == biosmem_find_boot_data(data, heap_start, mem_end)
        heap_end == IF f.start = 0 THEN mem_end ELSE f.start
        next2 == IF f.start = 0 THEN 0 ELSE f.end
        larger == (heap_end - heap_start) % UINT_MOD
                      > (max_heap_end - max_heap_start) % UINT_MOD
        max_start == IF larger THEN heap_start ELSE max_heap_start
        max_end == IF larger THEN heap_end ELSE max_heap_end
    IN  IF next2 # 0
        THEN SetupAllocatorLoop(data, mem_end, next2, max_start, max_end)
        ELSE [max_heap_start |-> max_start, max_heap_end |-> max_end]

\* Faulty variant: the largest gap is taken as it is.
biosmem_setup_allocator_unaligned(mbi, kernel) ==
    LET upper == vm_page_trunc(
                     ((mbi.mem_upper + BIOSMEM_END \div 1024) * 1024)
                         % UINT_MOD)
        mem_end == IF upper > VM_PAGE_DIRECTMAP_LIMIT
                   THEN VM_PAGE_DIRECTMAP_LIMIT
                   ELSE upper
        l == SetupAllocatorLoop(BootData(mbi, kernel), mem_end, BIOSMEM_END,
                                0, 0)
    IN  [panic |-> l.max_heap_start >= l.max_heap_end,
         heap_start |-> l.max_heap_start, heap_end |-> l.max_heap_end]

\* biosmem_setup_allocator: the heap, or the panic.  mem_upper is in KiB;
\* the 1024 KiB the code adds to it are BIOSMEM_END.
biosmem_setup_allocator(mbi, kernel) ==
    LET upper == vm_page_trunc(
                     ((mbi.mem_upper + BIOSMEM_END \div 1024) * 1024)
                         % UINT_MOD)
        mem_end == IF upper > VM_PAGE_DIRECTMAP_LIMIT
                   THEN VM_PAGE_DIRECTMAP_LIMIT
                   ELSE upper
        l == SetupAllocatorLoop(BootData(mbi, kernel), mem_end, BIOSMEM_END,
                                0, 0)
        max_heap_start == vm_page_round(l.max_heap_start)
        max_heap_end == vm_page_trunc(l.max_heap_end)
    IN  [panic |-> max_heap_start >= max_heap_end,
         heap_start |-> max_heap_start, heap_end |-> max_heap_end]

\* biosmem.c before its bootstrap: static data, all zeroes.
InitBiosmem ==
    /\ biosmem_map = <<>>
    /\ biosmem_heap_start = 0
    /\ biosmem_heap_cur = 0
    /\ biosmem_heap_end = 0
    /\ biosmem_segments = [s \in SegIndexes |-> ZeroBootSeg]
    /\ phys_last_addr = 0
    /\ boot = NoBoot

\* vm_page.c before vm_page_load: static data, all zeroes.
InitPage ==
    /\ vm_page_is_ready = 0
    /\ vm_page_segs_size = 0
    /\ vm_page_boot_segs = [s \in SegIndexes |-> ZeroBootSeg]
    /\ vm_page_segs = [s \in SegIndexes |-> ZeroSeg]
    /\ fatal = NoFatal
    /\ pc = [t \in Threads |-> "idle"]
    /\ th = [t \in Threads |-> NoCall]
    /\ held = {}
    /\ start = NoStart
    /\ hist = NoHist

Init == InitPage /\ InitBiosmem

(***************************************************************************)
(* Boot: vm_page_load, vm_page_setup, vm_page_manage.  They run on the     *)
(* boot processor before any other thread allocates.                       *)
(***************************************************************************)
\* The segments biosmem_setup may pass to vm_page_load, per segment index,
\* in page frame numbers: <<start, end, avail_start, avail_end>>.
LoadInputs(seg_index) ==
    CASE seg_index = 0 -> {<<4, 8, 4, 7>>}
      [] seg_index = 1 -> {<<8, 10, 8, 10>>}
      [] OTHER -> {}

vm_page_load(seg_index, seg_start, seg_end, avail_start, avail_end) ==
    /\ vm_page_is_ready = 0
    /\ fatal = NoFatal
    /\ IF /\ seg_index < VM_PAGE_MAX_SEGS
          /\ vm_page_aligned(seg_start)
          /\ vm_page_aligned(seg_end)
          /\ vm_page_aligned(avail_start)
          /\ vm_page_aligned(avail_end)
          /\ seg_start < seg_end
          /\ seg_start <= avail_start
          /\ avail_end <= seg_end
          /\ vm_page_segs_size < VM_PAGE_MAX_SEGS
       THEN /\ vm_page_boot_segs' =
                   [vm_page_boot_segs EXCEPT
                       ![seg_index] = [start |-> seg_start, end |-> seg_end,
                                       avail_start |-> avail_start,
                                       avail_end |-> avail_end]]
            /\ vm_page_segs_size' = vm_page_segs_size + 1
            /\ UNCHANGED fatal
       ELSE /\ fatal' = "assertion"
            /\ UNCHANGED <<vm_page_boot_segs, vm_page_segs_size>>
    /\ UNCHANGED <<vm_page_is_ready, vm_page_segs, pc, th, held, start, hist>>

Load ==
    \E a \in LoadInputs(vm_page_segs_size) :
        vm_page_load(vm_page_segs_size, vm_page_ptoa(a[1]), vm_page_ptoa(a[2]),
                     vm_page_ptoa(a[3]), vm_page_ptoa(a[4]))

\* vm_page_check_boot_segs: NoFatal or the panic message.
vm_page_check_boot_segs(boot_segs, segs_size) ==
    IF segs_size = 0
    THEN "vm_page: no physical memory loaded"
    ELSE IF \A i \in SegIndexes :
                vm_page_boot_seg_loaded(boot_segs[i]) = (i < segs_size)
    THEN NoFatal
    ELSE "vm_page: invalid boot segment table"

\* The release loop of vm_page_setup: while (page < end).
RECURSIVE SetupRelease(_, _, _, _)
SetupRelease(seg, page, end, ok) ==
    IF page < end
    THEN LET f == vm_page_seg_free_to_buddy(
                      [seg EXCEPT !.pages[page].type = VM_PT_FREE], page, 0)
         IN  SetupRelease(f.seg, page + 1, end, ok /\ f.ok)
    ELSE [seg |-> seg, ok |-> ok]

\* One turn of the segment loop of vm_page_setup.
SetupSeg(boot_seg, seg_index) ==
    LET seg == vm_page_seg_init(seg_index, boot_seg.start, boot_seg.end)
    IN  SetupRelease(seg,
                     vm_page_atop(boot_seg.avail_start - boot_seg.start),
                     vm_page_atop(boot_seg.avail_end - boot_seg.start),
                     TRUE)

\* The last loop of vm_page_setup: the pages of the table become
\* VM_PT_TABLE.  pmap_extract maps the table's addresses back to the
\* physical addresses pmap_steal_memory took.
RECURSIVE SetupTable(_, _, _, _, _)
SetupTable(segs, segs_size, pa, end, ok) ==
    IF pa < end
    THEN LET page == vm_page_lookup_pa(segs, segs_size, pa)
         IN  IF page = NULL_PAGE
             THEN [segs |-> segs, ok |-> FALSE]
             ELSE SetupTable(
                      [segs EXCEPT
                          ![page[1]].pages[page[2]].type = VM_PT_TABLE],
                      segs_size, pa + PAGE_SIZE, end,
                      ok /\ segs[page[1]].pages[page[2]].type = VM_PT_RESERVED)
    ELSE [segs |-> segs, ok |-> ok]

RECURSIVE SumSeq(_)
SumSeq(s) == IF s = <<>> THEN 0 ELSE Head(s) + SumSeq(Tail(s))

\* pmap_steal_memory(size): the memory of the page table comes from
\* vm_page_bootalloc.
pmap_steal_memory(boot_segs, segs_size, size) ==
    vm_page_bootalloc(boot_segs, segs_size, size)

vm_page_setup ==
    /\ vm_page_is_ready = 0
    /\ fatal = NoFatal
    /\ LET check == vm_page_check_boot_segs(vm_page_boot_segs,
                                           vm_page_segs_size)
           nr_pages == SumSeq([i \in 1 .. vm_page_segs_size |->
                           vm_page_atop(vm_page_boot_seg_size(
                               vm_page_boot_segs[i - 1]))])
           table_size == vm_page_round(nr_pages * SIZEOF_VM_PAGE)
           table == pmap_steal_memory(vm_page_boot_segs, vm_page_segs_size,
                                      table_size)
           inits == [s \in SegIndexes |->
                        IF s < vm_page_segs_size
                        THEN SetupSeg(table.boot_segs[s], s)
                        ELSE [seg |-> ZeroSeg, ok |-> TRUE]]
           marked == SetupTable([s \in SegIndexes |-> inits[s].seg],
                                vm_page_segs_size, table.pa,
                                table.pa + table_size, TRUE)
       IN  IF check # NoFatal
           THEN /\ fatal' = check
                /\ UNCHANGED <<vm_page_is_ready, vm_page_boot_segs,
                               vm_page_segs>>
           ELSE IF table.pa = NULL
           THEN /\ fatal' = "vm_page: no physical memory available"
                /\ UNCHANGED <<vm_page_is_ready, vm_page_boot_segs,
                               vm_page_segs>>
           ELSE /\ vm_page_boot_segs' = table.boot_segs
                /\ vm_page_segs' = marked.segs
                /\ IF marked.ok /\ \A s \in SegIndexes : inits[s].ok
                   THEN /\ vm_page_is_ready' = 1
                        /\ UNCHANGED fatal
                   ELSE /\ fatal' = "assertion"
                        /\ UNCHANGED vm_page_is_ready
    /\ UNCHANGED <<vm_page_segs_size, pc, th, held, start, hist>>

\* vm_page_manage(page), page being page number page of segment seg_index
\* (page->seg_index).
vm_page_manage(seg_index, page) ==
    /\ vm_page_is_ready = 1
    /\ fatal = NoFatal
    /\ ~start.begun
    /\ LET seg == vm_page_segs[seg_index]
           f == vm_page_seg_free_to_buddy(
                    [seg EXCEPT
                        !.pages = vm_page_set_type(@, page, 0, VM_PT_FREE)],
                    page, 0)
       IN  IF seg.pages[page].type = VM_PT_RESERVED /\ f.ok
           THEN /\ vm_page_segs' = [vm_page_segs EXCEPT ![seg_index] = f.seg]
                /\ UNCHANGED fatal
           ELSE /\ fatal' = "assertion"
                /\ UNCHANGED vm_page_segs
    /\ UNCHANGED <<vm_page_is_ready, vm_page_segs_size, vm_page_boot_segs,
                   pc, th, held, start, hist>>

\* biosmem_free_usable hands vm_page_manage the pages it finds with
\* vm_page_lookup_pa; the ones of the model are the reserved pages.
Manage ==
    \E s \in SegIndexes : \E page \in DOMAIN vm_page_segs[s].pages :
        /\ s < vm_page_segs_size
        /\ vm_page_segs[s].pages[page].type = VM_PT_RESERVED
        /\ vm_page_manage(s, page)

(***************************************************************************)
(* vm_page_alloc_pa and vm_page_free_pa, run by the threads of Threads.     *)
(* A step ends where the thread may have to wait for a     *)
(* lock; what a thread does between two such points touches only data      *)
(* protected by the locks it holds or pages it owns.                       *)
(***************************************************************************)
Running == vm_page_is_ready = 1 /\ fatal = NoFatal

\* The kernel has not stopped.  The steps inside vm_page_alloc_pa test
\* nothing else: the code never reads vm_page_is_ready there.
Alive == fatal = NoFatal

OthersIdle(t) == \A u \in Threads \ {t} : pc[u] = "idle"

\* Blocks handed out or about to be: the bound MaxHeld is on their number.
NrAllocating == Cardinality({u \in Threads : th[u].op = "alloc"})

\* Faulty variant: the pages returned are taken off nr_free_pages again.
SegAllocEnd_counted_twice(seg, page, order, type) ==
    [seg |-> [seg EXCEPT !.pages = vm_page_set_type(@, page, order, type),
                         !.nr_free_pages = @ - 2 ^ order],
     ok |-> seg.pages[page].type = VM_PT_FREE]

\* The end of vm_page_seg_alloc: assert(page->type == VM_PT_FREE) and
\* vm_page_set_type(page, order, type).
SegAllocEnd(seg, page, order, type) ==
    [seg |-> [seg EXCEPT !.pages = vm_page_set_type(@, page, order, type)],
     ok |-> seg.pages[page].type = VM_PT_FREE]

\* An assertion failed: the kernel stops.
AssertionFailed ==
    /\ fatal' = "assertion"
    /\ UNCHANGED <<vm_page_segs, pc, th, held, start, hist>>

\* vm_page_alloc_pa is entered: i = vm_page_select_alloc_seg(selector).
AllocCall(t, order, selector, type) ==
    /\ Running
    /\ pc[t] = "idle"
    /\ Cardinality(held) + NrAllocating < MaxHeld
    /\ pc' = [pc EXCEPT ![t] = "alloc_pa"]
    /\ th' = [th EXCEPT ![t] =
                 [op |-> "alloc", order |-> order, selector |-> selector,
                  type |-> type,
                  i |-> vm_page_select_alloc_seg(vm_page_segs_size, selector),
                  cpu |-> 0, page |-> NULL, tried |-> <<>>]]
    /\ start' = IF start.begun
                THEN [start EXCEPT !.order0 = @ \/ order = 0]
                ELSE [begun |-> TRUE, order0 |-> order = 0,
                      sizes |-> FreeListSizes(vm_page_segs)]
    /\ hist' = IF OthersIdle(t)
               THEN [NoHist EXCEPT !.stage = "alloc", !.thread = t,
                                   !.segs = vm_page_segs]
               ELSE NoHist
    /\ UNCHANGED <<vm_page_is_ready, vm_page_segs_size, vm_page_boot_segs,
                   vm_page_segs, fatal, held>>

\* vm_page_alloc_pa called on the boot processor before vm_page_setup has
\* set vm_page_is_ready: the code is the same, the segment table is not
\* yet set up.
AllocCallEarly(t, order, selector, type) ==
    /\ vm_page_is_ready = 0
    /\ fatal = NoFatal
    /\ pc[t] = "idle"
    /\ pc' = [pc EXCEPT ![t] = "alloc_pa"]
    /\ th' = [th EXCEPT ![t] =
                 [op |-> "alloc", order |-> order, selector |-> selector,
                  type |-> type,
                  i |-> vm_page_select_alloc_seg(vm_page_segs_size, selector),
                  cpu |-> 0, page |-> NULL, tried |-> <<>>]]
    /\ hist' = [NoHist EXCEPT !.stage = "early", !.thread = t,
                              !.segs = vm_page_segs]
    /\ UNCHANGED <<vm_page_is_ready, vm_page_segs_size, vm_page_boot_segs,
                   vm_page_segs, fatal, held, start>>

\* Faulty variant: NULL whatever the type.
AllocExit_null_for_pmap(t) ==
    /\ vm_page_is_ready = 1
    /\ fatal = NoFatal
    /\ pc[t] = "alloc_pa"
    /\ ~(th[t].i < vm_page_segs_size)
    /\ pc' = [pc EXCEPT ![t] = "alloc_done"]
    /\ th' = [th EXCEPT ![t].page = NULL]
    /\ UNCHANGED <<vm_page_is_ready, vm_page_segs_size, vm_page_boot_segs,
                   vm_page_segs, fatal, held, start, hist>>

\* The loop of vm_page_alloc_pa ends without a page: panic for a pmap
\* page, NULL otherwise.
AllocExit(t) ==
    /\ Alive
    /\ pc[t] = "alloc_pa"
    /\ ~(th[t].i < vm_page_segs_size)
    /\ IF th[t].type = VM_PT_PMAP
       THEN /\ fatal' = "vm_page: unable to allocate pmap page"
            /\ UNCHANGED <<pc, th>>
       ELSE /\ pc' = [pc EXCEPT ![t] = "alloc_done"]
            /\ th' = [th EXCEPT ![t].page = NULL]
            /\ UNCHANGED fatal
    /\ UNCHANGED <<vm_page_is_ready, vm_page_segs_size, vm_page_boot_segs,
                   vm_page_segs, held, start, hist>>

\* vm_page_seg_alloc, order 0: simple_lock(&cpu_pool->lock) on the pool of
\* the processor the thread runs on.
AllocLockPool(t) ==
    /\ Alive
    /\ pc[t] = "alloc_pa"
    /\ th[t].i < vm_page_segs_size
    /\ th[t].order = 0
    /\ vm_page_segs[th[t].i].cpu_pools[cpu_number(t)].lock = NoThread
    /\ vm_page_segs' = [vm_page_segs EXCEPT
                           ![th[t].i].cpu_pools[cpu_number(t)].lock = t]
    /\ pc' = [pc EXCEPT ![t] = "seg_alloc_pool"]
    /\ th' = [th EXCEPT ![t].cpu = cpu_number(t),
                        ![t].tried = Append(@, th[t].i)]
    /\ UNCHANGED <<vm_page_is_ready, vm_page_segs_size, vm_page_boot_segs,
                   fatal, held, start, hist>>

\* The pool is not empty: pop, unlock, set the type, return the page.
AllocPop(t) ==
    /\ Alive
    /\ pc[t] = "seg_alloc_pool"
    /\ LET s == th[t].i
           cpu == th[t].cpu
           seg == vm_page_segs[s]
           p == vm_page_cpu_pool_pop(seg.cpu_pools[cpu])
           e == SegAllocEnd(
                    [seg EXCEPT !.cpu_pools[cpu] =
                                    [p.cpu_pool EXCEPT !.lock = NoThread]],
                    p.page, th[t].order, th[t].type)
       IN  /\ seg.cpu_pools[cpu].nr_pages # 0
           /\ IF p.ok /\ e.ok
              THEN /\ vm_page_segs' = [vm_page_segs EXCEPT ![s] = e.seg]
                   /\ pc' = [pc EXCEPT ![t] = "alloc_done"]
                   /\ th' = [th EXCEPT ![t].page = p.page]
                   /\ UNCHANGED <<fatal, held, start, hist>>
              ELSE AssertionFailed
    /\ UNCHANGED <<vm_page_is_ready, vm_page_segs_size, vm_page_boot_segs>>

\* The pool is empty: vm_page_cpu_pool_fill takes the segment lock.
AllocLockFill(t) ==
    /\ Alive
    /\ pc[t] = "seg_alloc_pool"
    /\ vm_page_segs[th[t].i].cpu_pools[th[t].cpu].nr_pages = 0
    /\ vm_page_segs[th[t].i].lock = NoThread
    /\ vm_page_segs' = [vm_page_segs EXCEPT ![th[t].i].lock = t]
    /\ pc' = [pc EXCEPT ![t] = "seg_alloc_fill"]
    /\ UNCHANGED <<vm_page_is_ready, vm_page_segs_size, vm_page_boot_segs,
                   fatal, th, held, start, hist>>

\* The pool is filled and the segment lock released; with nothing filled
\* the segment's attempt ends with NULL, otherwise a page is popped.
AllocFill(t) ==
    /\ Alive
    /\ pc[t] = "seg_alloc_fill"
    /\ LET s == th[t].i
           cpu == th[t].cpu
           f == vm_page_cpu_pool_fill(vm_page_segs[s], cpu)
           seg == [f.seg EXCEPT !.lock = NoThread]
           p == vm_page_cpu_pool_pop(seg.cpu_pools[cpu])
           e == SegAllocEnd(
                    [seg EXCEPT !.cpu_pools[cpu] =
                                    [p.cpu_pool EXCEPT !.lock = NoThread]],
                    p.page, th[t].order, th[t].type)
       IN  IF ~f.ok
           THEN AssertionFailed
           ELSE IF f.filled = 0
           THEN /\ vm_page_segs' =
                       [vm_page_segs EXCEPT
                           ![s] = [seg EXCEPT
                                      !.cpu_pools[cpu].lock = NoThread]]
                /\ pc' = [pc EXCEPT ![t] = "alloc_pa"]
                /\ th' = [th EXCEPT ![t].i = UnsignedDec(@)]
                /\ UNCHANGED <<fatal, held, start, hist>>
           ELSE IF p.ok /\ e.ok
           THEN /\ vm_page_segs' = [vm_page_segs EXCEPT ![s] = e.seg]
                /\ pc' = [pc EXCEPT ![t] = "alloc_done"]
                /\ th' = [th EXCEPT ![t].page = p.page]
                /\ UNCHANGED <<fatal, held, start, hist>>
           ELSE AssertionFailed
    /\ UNCHANGED <<vm_page_is_ready, vm_page_segs_size, vm_page_boot_segs>>

\* Faulty variant: the lock of the processor's pool is taken after the
\* segment lock.
AllocLockSeg_then_pool(t) ==
    /\ Alive
    /\ pc[t] = "alloc_pa"
    /\ th[t].i < vm_page_segs_size
    /\ th[t].order # 0
    /\ vm_page_segs[th[t].i].lock = NoThread
    /\ vm_page_segs[th[t].i].cpu_pools[cpu_number(t)].lock = NoThread
    /\ vm_page_segs' = [vm_page_segs EXCEPT
                           ![th[t].i].lock = t,
                           ![th[t].i].cpu_pools[cpu_number(t)].lock = t]
    /\ pc' = [pc EXCEPT ![t] = "seg_alloc_buddy"]
    /\ th' = [th EXCEPT ![t].tried = Append(@, th[t].i)]
    /\ UNCHANGED <<vm_page_is_ready, vm_page_segs_size, vm_page_boot_segs,
                   fatal, held, start, hist>>

\* vm_page_seg_alloc, order > 0: simple_lock(&seg->lock).
AllocLockSeg(t) ==
    /\ Alive
    /\ pc[t] = "alloc_pa"
    /\ th[t].i < vm_page_segs_size
    /\ th[t].order # 0
    /\ vm_page_segs[th[t].i].lock = NoThread
    /\ vm_page_segs' = [vm_page_segs EXCEPT ![th[t].i].lock = t]
    /\ pc' = [pc EXCEPT ![t] = "seg_alloc_buddy"]
    /\ th' = [th EXCEPT ![t].tried = Append(@, th[t].i)]
    /\ UNCHANGED <<vm_page_is_ready, vm_page_segs_size, vm_page_boot_segs,
                   fatal, held, start, hist>>

\* Faulty variant: with no block found, vm_page_seg_alloc returns NULL
\* without releasing the segment lock.
AllocBuddy_null_keeps_lock(t) ==
    /\ Alive
    /\ pc[t] = "seg_alloc_buddy"
    /\ LET s == th[t].i
           a == vm_page_seg_alloc_from_buddy(vm_page_segs[s], th[t].order)
           seg == [a.seg EXCEPT !.lock = NoThread]
           e == SegAllocEnd(seg, a.page, th[t].order, th[t].type)
       IN  IF ~a.ok
           THEN AssertionFailed
           ELSE IF a.page = NULL
           THEN /\ vm_page_segs' = [vm_page_segs EXCEPT ![s] = a.seg]
                /\ pc' = [pc EXCEPT ![t] = "alloc_pa"]
                /\ th' = [th EXCEPT ![t].i = UnsignedDec(@)]
                /\ UNCHANGED <<fatal, held, start, hist>>
           ELSE IF e.ok
           THEN /\ vm_page_segs' = [vm_page_segs EXCEPT ![s] = e.seg]
                /\ pc' = [pc EXCEPT ![t] = "alloc_done"]
                /\ th' = [th EXCEPT ![t].page = a.page]
                /\ UNCHANGED <<fatal, held, start, hist>>
           ELSE AssertionFailed
    /\ UNCHANGED <<vm_page_is_ready, vm_page_segs_size, vm_page_boot_segs>>

\* vm_page_seg_alloc_from_buddy under the segment lock, the unlock, and
\* either NULL for this segment or the type set and the page returned.
AllocBuddy(t) ==
    /\ Alive
    /\ pc[t] = "seg_alloc_buddy"
    /\ LET s == th[t].i
           a == vm_page_seg_alloc_from_buddy(vm_page_segs[s], th[t].order)
           seg == [a.seg EXCEPT !.lock = NoThread]
           e == SegAllocEnd(seg, a.page, th[t].order, th[t].type)
       IN  IF ~a.ok
           THEN AssertionFailed
           ELSE IF a.page = NULL
           THEN /\ vm_page_segs' = [vm_page_segs EXCEPT ![s] = seg]
                /\ pc' = [pc EXCEPT ![t] = "alloc_pa"]
                /\ th' = [th EXCEPT ![t].i = UnsignedDec(@)]
                /\ UNCHANGED <<fatal, held, start, hist>>
           ELSE IF e.ok
           THEN /\ vm_page_segs' = [vm_page_segs EXCEPT ![s] = e.seg]
                /\ pc' = [pc EXCEPT ![t] = "alloc_done"]
                /\ th' = [th EXCEPT ![t].page = a.page]
                /\ UNCHANGED <<fatal, held, start, hist>>
           ELSE AssertionFailed
    /\ UNCHANGED <<vm_page_is_ready, vm_page_segs_size, vm_page_boot_segs>>

\* vm_page_alloc_pa has returned th[t].page of segment th[t].i, or NULL:
\* the caller takes the block.
AllocReturn(t) ==
    /\ Alive
    /\ pc[t] = "alloc_done"
    /\ pc' = [pc EXCEPT ![t] = "idle"]
    /\ th' = [th EXCEPT ![t] = NoCall]
    /\ held' = IF th[t].page = NULL
               THEN held
               ELSE held \cup {[seg |-> th[t].i, page |-> th[t].page,
                                order |-> th[t].order]}
    /\ hist' = IF hist.stage = "alloc" /\ hist.thread = t
                  /\ th[t].page # NULL
               THEN [hist EXCEPT !.stage = "held", !.seg = th[t].i,
                                 !.page = th[t].page, !.order = th[t].order]
               ELSE NoHist
    /\ UNCHANGED <<vm_page_is_ready, vm_page_segs_size, vm_page_boot_segs,
                   vm_page_segs, fatal, start>>

\* Faulty variant: the type of the page is not tested.
FreeAsserts_type_untested(seg, page, order) ==
    /\ page # NULL
    /\ seg.pages[page].seg_index < VM_PAGE_MAX_SEGS
    /\ order < VM_PAGE_NR_FREE_LISTS

\* The assertions vm_page_free_pa and vm_page_seg_free make before they
\* change anything, page being page number page of segment seg.
FreeAsserts(seg, page, order) ==
    /\ page # NULL
    /\ seg.pages[page].seg_index < VM_PAGE_MAX_SEGS
    /\ seg.pages[page].type # VM_PT_FREE
    /\ order < VM_PAGE_NR_FREE_LISTS

\* vm_page_free_pa(page, order) on a block the callers hold, with the order
\* it was allocated with: the assertions of vm_page_free_pa and
\* vm_page_seg_free, and vm_page_set_type(page, order, VM_PT_FREE).
FreeCall(t, b) ==
    /\ Running
    /\ pc[t] = "idle"
    /\ b \in held
    /\ held' = held \ {b}
    /\ LET seg == vm_page_segs[b.seg]
       IN  IF FreeAsserts(seg, b.page, b.order)
           THEN /\ vm_page_segs' =
                       [vm_page_segs EXCEPT
                           ![seg.pages[b.page].seg_index].pages =
                               vm_page_set_type(@, b.page, b.order,
                                                VM_PT_FREE)]
                /\ pc' = [pc EXCEPT ![t] = "seg_free"]
                /\ th' = [th EXCEPT ![t] =
                             [NoCall EXCEPT
                                 !.op = "free", !.order = b.order,
                                 !.i = seg.pages[b.page].seg_index,
                                 !.page = b.page]]
                /\ UNCHANGED fatal
           ELSE /\ fatal' = "assertion"
                /\ UNCHANGED <<vm_page_segs, pc, th>>
    /\ start' = [start EXCEPT !.order0 = @ \/ b.order = 0]
    /\ hist' = IF /\ hist.stage = "held"
                  /\ hist.seg = b.seg /\ hist.page = b.page
                  /\ hist.order = b.order
               THEN [hist EXCEPT !.stage = "free", !.thread = t]
               ELSE NoHist
    /\ UNCHANGED <<vm_page_is_ready, vm_page_segs_size, vm_page_boot_segs>>

\* The history when thread t's vm_page_free_pa returns.
HistFreed(t) ==
    IF hist.stage = "free" /\ hist.thread = t
    THEN [hist EXCEPT !.stage = "freed"]
    ELSE hist

\* vm_page_seg_free, order 0: simple_lock(&cpu_pool->lock).
FreeLockPool(t) ==
    /\ Running
    /\ pc[t] = "seg_free"
    /\ th[t].order = 0
    /\ vm_page_segs[th[t].i].cpu_pools[cpu_number(t)].lock = NoThread
    /\ vm_page_segs' = [vm_page_segs EXCEPT
                           ![th[t].i].cpu_pools[cpu_number(t)].lock = t]
    /\ pc' = [pc EXCEPT ![t] = "seg_free_pool"]
    /\ th' = [th EXCEPT ![t].cpu = cpu_number(t)]
    /\ UNCHANGED <<vm_page_is_ready, vm_page_segs_size, vm_page_boot_segs,
                   fatal, held, start, hist>>

\* The pool is not full: push, unlock, return.
FreePush(t) ==
    /\ Running
    /\ pc[t] = "seg_free_pool"
    /\ LET s == th[t].i
           cpu == th[t].cpu
           seg == vm_page_segs[s]
           p == vm_page_cpu_pool_push(seg.cpu_pools[cpu], th[t].page)
       IN  /\ seg.cpu_pools[cpu].nr_pages # seg.cpu_pools[cpu].size
           /\ IF p.ok
              THEN /\ vm_page_segs' =
                          [vm_page_segs EXCEPT
                              ![s].cpu_pools[cpu] =
                                  [p.cpu_pool EXCEPT !.lock = NoThread]]
                   /\ pc' = [pc EXCEPT ![t] = "idle"]
                   /\ th' = [th EXCEPT ![t] = NoCall]
                   /\ hist' = HistFreed(t)
                   /\ UNCHANGED <<fatal, held, start>>
              ELSE AssertionFailed
    /\ UNCHANGED <<vm_page_is_ready, vm_page_segs_size, vm_page_boot_segs>>

\* The pool is full: vm_page_cpu_pool_drain takes the segment lock.
FreeLockDrain(t) ==
    /\ Running
    /\ pc[t] = "seg_free_pool"
    /\ vm_page_segs[th[t].i].cpu_pools[th[t].cpu].nr_pages
           = vm_page_segs[th[t].i].cpu_pools[th[t].cpu].size
    /\ vm_page_segs[th[t].i].lock = NoThread
    /\ vm_page_segs' = [vm_page_segs EXCEPT ![th[t].i].lock = t]
    /\ pc' = [pc EXCEPT ![t] = "seg_free_drain"]
    /\ UNCHANGED <<vm_page_is_ready, vm_page_segs_size, vm_page_boot_segs,
                   fatal, th, held, start, hist>>

\* The pool is drained, the segment lock released, the page pushed.
FreeDrain(t) ==
    /\ Running
    /\ pc[t] = "seg_free_drain"
    /\ LET s == th[t].i
           cpu == th[t].cpu
           d == vm_page_cpu_pool_drain(vm_page_segs[s], cpu)
           seg == [d.seg EXCEPT !.lock = NoThread]
           p == vm_page_cpu_pool_push(seg.cpu_pools[cpu], th[t].page)
       IN  IF d.ok /\ p.ok
           THEN /\ vm_page_segs' =
                       [vm_page_segs EXCEPT
                           ![s] = [seg EXCEPT
                                      !.cpu_pools[cpu] =
                                          [p.cpu_pool EXCEPT
                                              !.lock = NoThread]]]
                /\ pc' = [pc EXCEPT ![t] = "idle"]
                /\ th' = [th EXCEPT ![t] = NoCall]
                /\ hist' = HistFreed(t)
                /\ UNCHANGED <<fatal, held, start>>
           ELSE AssertionFailed
    /\ UNCHANGED <<vm_page_is_ready, vm_page_segs_size, vm_page_boot_segs>>

\* vm_page_seg_free, order > 0: simple_lock(&seg->lock).
FreeLockSeg(t) ==
    /\ Running
    /\ pc[t] = "seg_free"
    /\ th[t].order # 0
    /\ vm_page_segs[th[t].i].lock = NoThread
    /\ vm_page_segs' = [vm_page_segs EXCEPT ![th[t].i].lock = t]
    /\ pc' = [pc EXCEPT ![t] = "seg_free_buddy"]
    /\ UNCHANGED <<vm_page_is_ready, vm_page_segs_size, vm_page_boot_segs,
                   fatal, th, held, start, hist>>

\* vm_page_seg_free_to_buddy under the segment lock, and the unlock.
FreeBuddy(t) ==
    /\ Running
    /\ pc[t] = "seg_free_buddy"
    /\ LET s == th[t].i
           f == vm_page_seg_free_to_buddy(vm_page_segs[s], th[t].page,
                                          th[t].order)
       IN  IF f.ok
           THEN /\ vm_page_segs' =
                       [vm_page_segs EXCEPT
                           ![s] = [f.seg EXCEPT !.lock = NoThread]]
                /\ pc' = [pc EXCEPT ![t] = "idle"]
                /\ th' = [th EXCEPT ![t] = NoCall]
                /\ hist' = HistFreed(t)
                /\ UNCHANGED <<fatal, held, start>>
           ELSE AssertionFailed
    /\ UNCHANGED <<vm_page_is_ready, vm_page_segs_size, vm_page_boot_segs>>

vm_page_alloc_pa(t, inputs) ==
    \/ \E a \in inputs : AllocCall(t, a[1], a[2], a[3])
    \/ AllocExit(t)
    \/ AllocLockPool(t)
    \/ AllocPop(t)
    \/ AllocLockFill(t)
    \/ AllocFill(t)
    \/ AllocLockSeg(t)
    \/ AllocBuddy(t)
    \/ AllocReturn(t)

vm_page_free_pa(t) ==
    \/ \E b \in held : FreeCall(t, b)
    \/ FreeLockPool(t)
    \/ FreePush(t)
    \/ FreeLockDrain(t)
    \/ FreeDrain(t)
    \/ FreeLockSeg(t)
    \/ FreeBuddy(t)

\* Every processor may be inside the allocator at once.
Next ==
    \/ Load /\ UNCHANGED biosmem_vars
    \/ vm_page_setup /\ UNCHANGED biosmem_vars
    \/ Manage /\ UNCHANGED biosmem_vars
    \/ \E t \in Threads :
           vm_page_alloc_pa(t, ConcurrentInputs) /\ UNCHANGED biosmem_vars
    \/ \E t \in Threads : vm_page_free_pa(t) /\ UNCHANGED biosmem_vars

Spec == Init /\ [][Next]_vars

\* simple_lock by thread t: the six places where vm_page_seg_alloc,
\* vm_page_seg_free, vm_page_cpu_pool_fill and vm_page_cpu_pool_drain take
\* a lock.
LockStep(t) ==
    /\ \/ AllocLockPool(t)
       \/ AllocLockFill(t)
       \/ AllocLockSeg(t)
       \/ FreeLockPool(t)
       \/ FreeLockDrain(t)
       \/ FreeLockSeg(t)
    /\ UNCHANGED biosmem_vars

\* Thread t is inside a call at a point where its next step takes no lock:
\* the end of the segment walk, a pop or a push, a fill or a drain, the
\* buddy under the segment lock, the return to the caller.
NoWait(t) ==
    \/ pc[t] \in {"seg_alloc_fill", "seg_alloc_buddy", "alloc_done",
                   "seg_free_drain", "seg_free_buddy"}
    \/ pc[t] = "alloc_pa" /\ ~(th[t].i < vm_page_segs_size)
    \/ /\ pc[t] = "seg_alloc_pool"
       /\ vm_page_segs[th[t].i].cpu_pools[th[t].cpu].nr_pages # 0
    \/ /\ pc[t] = "seg_free_pool"
       /\ vm_page_segs[th[t].i].cpu_pools[th[t].cpu].nr_pages
              # vm_page_segs[th[t].i].cpu_pools[th[t].cpu].size

\* The scheduling of the code: a processor inside the allocator is not
\* preempted and keeps executing until the kernel stops, and simple_lock
\* spins until it gets the lock; lock acquisition is fair, so a thread that
\* finds the lock free again and again gets it in the end.
SpecFair ==
    /\ Spec
    /\ \A t \in Threads : []<>(~NoWait(t) \/ ~Alive)
    /\ \A t \in Threads : SF_vars(LockStep(t))

\* One call at a time, on any processor: a call begins and runs only while
\* no other processor is inside the allocator.
NextSeq ==
    \/ Load /\ UNCHANGED biosmem_vars
    \/ vm_page_setup /\ UNCHANGED biosmem_vars
    \/ Manage /\ UNCHANGED biosmem_vars
    \/ \E t \in Threads :
           /\ OthersIdle(t)
           /\ vm_page_alloc_pa(t, AllocInputs)
           /\ UNCHANGED biosmem_vars
    \/ \E t \in Threads :
           OthersIdle(t) /\ vm_page_free_pa(t) /\ UNCHANGED biosmem_vars

SpecSeq == Init /\ [][NextSeq]_vars

\* vm_page_mem_free(), called by thread t outside vm_page_alloc_pa and
\* vm_page_free_pa: the sum of nr_free_pages over the segments up to
\* VM_PAGE_SEG_DIRECTMAP, read with no lock taken.  th[t].i is the total
\* returned.
vm_page_mem_free(t) ==
    /\ Running
    /\ pc[t] = "idle"
    /\ th' = [th EXCEPT ![t] =
                 [NoCall EXCEPT
                     !.op = "mem_free",
                     !.i = SumSeq([n \in 1 .. vm_page_segs_size |->
                               IF n - 1 > VM_PAGE_SEG_DIRECTMAP
                               THEN 0
                               ELSE vm_page_segs[n - 1].nr_free_pages])]]
    /\ UNCHANGED <<vm_page_is_ready, vm_page_segs_size, vm_page_boot_segs,
                   vm_page_segs, fatal, pc, held, start, hist>>

\* The allocator with its statistics read at any time by any processor.
NextStat ==
    \/ Load /\ UNCHANGED biosmem_vars
    \/ vm_page_setup /\ UNCHANGED biosmem_vars
    \/ Manage /\ UNCHANGED biosmem_vars
    \/ \E t \in Threads :
           vm_page_alloc_pa(t, ConcurrentInputs) /\ UNCHANGED biosmem_vars
    \/ \E t \in Threads : vm_page_free_pa(t) /\ UNCHANGED biosmem_vars
    \/ \E t \in Threads : vm_page_mem_free(t) /\ UNCHANGED biosmem_vars

SpecStat == Init /\ [][NextStat]_vars


(***************************************************************************)
(* Vocabulary of the properties.                                           *)
(***************************************************************************)
FreeListOrders == 0 .. VM_PAGE_NR_FREE_LISTS - 1

\* The pages of the block of 2^order pages that starts at page.
BlockPages(page, order) == page .. page + 2 ^ order - 1

\* The segments vm_page_load has loaded; the others are all zeroes.
LoadedSegs == {s \in SegIndexes : s < vm_page_segs_size}

\* The blocks linked in the free lists of a segment, one per list node.
ListedBlocks(seg) ==
    UNION {{[order |-> i, pos |-> n, page |-> seg.free_lists[i].blocks[n]] :
               n \in 1 .. Len(seg.free_lists[i].blocks)} :
           i \in {j \in FreeListOrders : seg.free_lists[j].blocks # <<>>}}

\* The pages the free lists of a segment account for.
FreeListPages(seg) ==
    SumSeq([n \in 1 .. VM_PAGE_NR_FREE_LISTS |->
               seg.free_lists[n - 1].size * 2 ^ (n - 1)])

\* The pages in the CPU pools of a segment.
PooledPages(seg) ==
    SumSeq([n \in 1 .. NCPUS |-> seg.cpu_pools[n - 1].nr_pages])

\* Everything that owns page frames: a free-list node, a pool node, a block
\* a caller holds, a block vm_page_alloc_pa has just returned.
Owners(s) ==
    {[kind |-> "list", at |-> <<b.order, b.pos>>,
      page |-> b.page, order |-> b.order] :
         b \in ListedBlocks(vm_page_segs[s])}
    \cup UNION {{[kind |-> "pool", at |-> <<c, n>>,
                  page |-> vm_page_segs[s].cpu_pools[c].pages[n],
                  order |-> 0] :
                    n \in 1 .. Len(vm_page_segs[s].cpu_pools[c].pages)} :
                c \in CPUs}
    \cup {[kind |-> "held", at |-> <<0, 0>>,
           page |-> b.page, order |-> b.order] :
              b \in {h \in held : h.seg = s}}
    \cup {[kind |-> "returned", at |-> <<t, 0>>,
           page |-> th[t].page, order |-> th[t].order] :
              t \in {u \in Threads : /\ pc[u] = "alloc_done"
                                        /\ th[u].page # NULL
                                        /\ th[u].i = s}}

\* Two blocks of one segment share a page.
Overlap(a, b) ==
    /\ a.page < b.page + 2 ^ b.order
    /\ b.page < a.page + 2 ^ a.order

\* The segments vm_page_alloc_pa may take a block from, for a selector.
PermittedSegs(selector) ==
    {s \in SegIndexes :
        s <= vm_page_select_alloc_seg(vm_page_segs_size, selector)}

\* A free-list block of at least the order asked for.
HasFreeBlock(seg, order) ==
    \E i \in FreeListOrders : i >= order /\ seg.free_lists[i].size > 0

\* An attempt on the segment by processor cpu finds a block: on the free
\* lists or, for one page, in the processor's pool.
CanSatisfy(seg, cpu, order) ==
    \/ HasFreeBlock(seg, order)
    \/ order = 0 /\ seg.cpu_pools[cpu].nr_pages > 0

\* Thread t's vm_page_alloc_pa has returned; hist.segs is the segment table
\* when it was called.
Returned(t) ==
    /\ pc[t] = "alloc_done"
    /\ hist.stage = "alloc"
    /\ hist.thread = t

AllIdle == \A t \in Threads : pc[t] = "idle"

(***************************************************************************)
(* Callers that break the interface: vm_page_alloc_pa before               *)
(* vm_page_setup, vm_page_free_pa of a block that is already free or with  *)
(* an order other than the one the block was allocated with.  hist records *)
(* the call and the segment table it found.                                *)
(***************************************************************************)
\* The pages of segment s the allocator has: vm_page_manage or
\* vm_page_free_pa has put them in a free list or a pool and no
\* vm_page_alloc_pa has returned them since.
FreedPages(s) ==
    UNION {BlockPages(b.page, b.order) : b \in ListedBlocks(vm_page_segs[s])}
    \cup UNION {{vm_page_segs[s].cpu_pools[c].pages[n] :
                    n \in 1 .. Len(vm_page_segs[s].cpu_pools[c].pages)} :
                c \in CPUs}

\* vm_page_free_pa(page, order) as the code runs it for any page of a loaded
\* segment and any order: the assertions, then vm_page_set_type.
FreeEnter(t, s, page, order, kind) ==
    /\ Running
    /\ pc[t] = "idle"
    /\ LET seg == vm_page_segs[s]
       IN  IF FreeAsserts(seg, page, order)
           THEN /\ vm_page_segs' =
                       [vm_page_segs EXCEPT
                           ![seg.pages[page].seg_index].pages =
                               vm_page_set_type(@, page, order, VM_PT_FREE)]
                /\ pc' = [pc EXCEPT ![t] = "seg_free"]
                /\ th' = [th EXCEPT ![t] =
                             [NoCall EXCEPT
                                 !.op = "free", !.order = order,
                                 !.i = seg.pages[page].seg_index,
                                 !.page = page]]
                /\ UNCHANGED fatal
           ELSE /\ fatal' = "assertion"
                /\ UNCHANGED <<vm_page_segs, pc, th>>
    /\ hist' = [stage |-> kind, thread |-> t, segs |-> vm_page_segs,
                seg |-> s, page |-> page, order |-> order]
    /\ UNCHANGED <<vm_page_is_ready, vm_page_segs_size, vm_page_boot_segs,
                   start>>

\* A second vm_page_free_pa of a page the allocator already has, with any
\* order.
FreeTwice(t, s, page, order) ==
    /\ s \in LoadedSegs
    /\ page \in FreedPages(s)
    /\ FreeEnter(t, s, page, order, "double_free")
    /\ UNCHANGED held

\* vm_page_free_pa of a held block with another order than its own.
FreeWrongOrder(t, b, order) ==
    /\ b \in held
    /\ order # b.order
    /\ FreeEnter(t, b.seg, b.page, order, "wrong_order")
    /\ held' = held \ {b}

\* With the larger order the block may end past the descriptor table of the
\* segment: vm_page_set_type then writes outside the table, which the C
\* language leaves undefined.  The kernel may go on (FreeWrongOrder) or
\* stop here.
FreeWrongOrderOutside(t, b, order) ==
    /\ Running
    /\ pc[t] = "idle"
    /\ b \in held
    /\ order # b.order
    /\ b.page + 2 ^ order > vm_page_segs[b.seg].pages_end
    /\ FreeAsserts(vm_page_segs[b.seg], b.page, order)
    /\ fatal' = "undefined"
    /\ hist' = [stage |-> "wrong_order", thread |-> t, segs |-> vm_page_segs,
                seg |-> b.seg, page |-> b.page, order |-> order]
    /\ UNCHANGED <<vm_page_is_ready, vm_page_segs_size, vm_page_boot_segs,
                   vm_page_segs, pc, th, held, start>>

\* A caller has broken the interface after setup: nothing is known of what
\* the allocator does for later calls.
Misused == hist.stage \in {"double_free", "wrong_order"}

\* One call at a time; the calls of SpecSeq and those that break the
\* interface.  The boot steps run while no call is in progress.
NextMisuse ==
    \/ AllIdle /\ Load /\ UNCHANGED biosmem_vars
    \/ AllIdle /\ vm_page_setup /\ UNCHANGED biosmem_vars
    \/ Manage /\ UNCHANGED biosmem_vars
    \/ \E t \in Threads : \E a \in AllocInputs :
           /\ OthersIdle(t)
           /\ AllocCallEarly(t, a[1], a[2], a[3])
           /\ UNCHANGED biosmem_vars
    \/ \E t \in Threads :
           /\ OthersIdle(t)
           /\ ~Misused
           /\ vm_page_alloc_pa(t, AllocInputs)
           /\ UNCHANGED biosmem_vars
    \/ \E t \in Threads :
           /\ OthersIdle(t)
           /\ Misused => pc[t] # "idle"
           /\ vm_page_free_pa(t)
           /\ UNCHANGED biosmem_vars
    \/ \E t \in Threads : \E s \in LoadedSegs :
       \E page \in DOMAIN vm_page_segs[s].pages : \E order \in Orders :
           /\ OthersIdle(t)
           /\ ~Misused
           /\ FreeTwice(t, s, page, order)
           /\ UNCHANGED biosmem_vars
    \/ \E t \in Threads : \E b \in held : \E order \in Orders :
           /\ OthersIdle(t)
           /\ ~Misused
           /\ FreeWrongOrder(t, b, order)
           /\ UNCHANGED biosmem_vars
    \/ \E t \in Threads : \E b \in held : \E order \in Orders :
           /\ OthersIdle(t)
           /\ ~Misused
           /\ FreeWrongOrderOutside(t, b, order)
           /\ UNCHANGED biosmem_vars

SpecMisuse == Init /\ [][NextMisuse]_vars

(***************************************************************************)
(* biosmem.c: biosmem_map_adjust on the map the boot loader passed.        *)
(***************************************************************************)
MapTypes == {BIOSMEM_TYPE_AVAILABLE, BIOSMEM_TYPE_RESERVED}

\* The entries a boot loader may pass: any base, any length (zero, and
\* lengths that wrap, included), any type.
InputEntries ==
    [base_addr : (0 .. MaxBase) \cup {UINT64_MOD - 1},
     length : 0 .. MaxLength, type : MapTypes]

\* biosmem_map_build has copied the map of the boot loader: at most
\* BIOSMEM_MAX_MAP_SIZE entries.  An entry of length 0 is filtered out, so
\* the shorter maps are among these.
InputMaps == [1 .. BIOSMEM_MAX_MAP_SIZE -> InputEntries]

InitMap ==
    /\ InitPage
    /\ biosmem_map \in InputMaps
    /\ biosmem_heap_start = 0
    /\ biosmem_heap_cur = 0
    /\ biosmem_heap_end = 0
    /\ biosmem_segments = [s \in SegIndexes |-> ZeroBootSeg]
    /\ phys_last_addr = 0
    /\ boot = [NoBoot EXCEPT !.mmap = biosmem_map]

\* biosmem_bootstrap_common calls biosmem_map_adjust, once.
MapAdjust ==
    /\ fatal = NoFatal
    /\ ~boot.adjusted
    /\ LET r == biosmem_map_adjust(biosmem_map)
       IN  /\ biosmem_map' = r.map
           /\ fatal' = IF r.panic
                       THEN "biosmem: too many memory map entries"
                       ELSE NoFatal
    /\ boot' = [boot EXCEPT !.adjusted = TRUE]
    /\ UNCHANGED <<vm_page_is_ready, vm_page_segs_size, vm_page_boot_segs,
                   vm_page_segs, thread_vars, biosmem_heap_start,
                   biosmem_heap_cur, biosmem_heap_end, biosmem_segments,
                   phys_last_addr>>

NextMap == MapAdjust

SpecMap == InitMap /\ [][NextMap]_vars

(***************************************************************************)
(* biosmem.c: the bootstrap heap and biosmem_bootalloc.                    *)
(***************************************************************************)
\* The heap biosmem_setup_allocator (top-down, heap_cur at the end) or
\* biosmem_xen_bootstrap (MACH_HYP: bottom-up, heap_cur at the start) has
\* set up: page-aligned, not empty.
InitHeap ==
    /\ InitPage
    /\ biosmem_map = <<>>
    /\ biosmem_segments = [s \in SegIndexes |-> ZeroBootSeg]
    /\ phys_last_addr = 0
    /\ \E mach_hyp \in BOOLEAN : \E s \in 1 .. 2 : \E n \in 1 .. MaxHeapPages :
           /\ biosmem_heap_start = vm_page_ptoa(s)
           /\ biosmem_heap_end = vm_page_ptoa(s + n)
           /\ biosmem_heap_cur = IF mach_hyp
                                 THEN vm_page_ptoa(s)
                                 ELSE vm_page_ptoa(s + n)
           /\ boot = [NoBoot EXCEPT !.mach_hyp = mach_hyp]

\* The address biosmem_bootalloc is about to return: heap_cur (MACH_HYP) or
\* heap_cur - size, in unsigned long arithmetic.
BootallocAddr(mach_hyp, heap_cur, size) ==
    IF mach_hyp
    THEN heap_cur
    ELSE (heap_cur - size) % UINT_MOD

\* Faulty variant: the address is not compared with the start of the heap.
BootallocFits_start_untested(addr, heap_start, heap_cur) == ~(addr > heap_cur)

\* The test that precedes the panic "unable to allocate memory", negated.
BootallocFits(addr, heap_start, heap_cur) ==
    ~(addr < heap_start \/ addr > heap_cur)

biosmem_bootalloc(nr_pages) ==
    /\ fatal = NoFatal
    /\ Len(boot.allocs) < MaxBootallocs
    /\ LET size == vm_page_ptoa(nr_pages)
           addr == BootallocAddr(boot.mach_hyp, biosmem_heap_cur, size)
           call == [nr_pages |-> nr_pages, cur |-> biosmem_heap_cur,
                    addr |-> NULL, ready |-> vm_page_is_ready]
       IN  IF vm_page_is_ready # 0
           THEN /\ fatal' = "assertion"
                /\ boot' = [boot EXCEPT !.last = call]
                /\ UNCHANGED biosmem_heap_cur
           ELSE IF size = 0
           THEN /\ fatal' = "biosmem: attempt to allocate 0 page"
                /\ boot' = [boot EXCEPT !.last = call]
                /\ UNCHANGED biosmem_heap_cur
           ELSE IF ~BootallocFits(addr, biosmem_heap_start, biosmem_heap_cur)
           THEN /\ fatal' = "biosmem: unable to allocate memory"
                /\ boot' = [boot EXCEPT !.last = call]
                /\ UNCHANGED biosmem_heap_cur
           ELSE /\ biosmem_heap_cur' =
                       IF boot.mach_hyp
                       THEN (biosmem_heap_cur + size) % UINT_MOD
                       ELSE addr
                /\ boot' = [boot EXCEPT
                               !.last = [call EXCEPT !.addr = addr],
                               !.allocs = Append(@, [addr |-> addr,
                                                     nr_pages |-> nr_pages])]
                /\ UNCHANGED fatal
    /\ UNCHANGED <<vm_page_is_ready, vm_page_segs_size, vm_page_boot_segs,
                   vm_page_segs, thread_vars, biosmem_map,
                   biosmem_heap_start, biosmem_heap_end, biosmem_segments,
                   phys_last_addr>>

\* The boot processor allocates from the heap, loads the segments and sets
\* the page allocator up.
NextHeap ==
    \/ \E nr_pages \in 0 .. MaxHeapPages + 1 : biosmem_bootalloc(nr_pages)
    \/ Load /\ UNCHANGED biosmem_vars
    \/ vm_page_setup /\ UNCHANGED biosmem_vars

SpecHeap == InitHeap /\ [][NextHeap]_vars

(***************************************************************************)
(* biosmem.c: biosmem_bootstrap, on what a multiboot loader hands over.    *)
(***************************************************************************)
HALF_PAGE == PAGE_SIZE \div 2

\* The kernel images: _start at BIOSMEM_END or up to two half pages above,
\* _end one to MaxDataHalves half pages further.
BootKernels ==
    {[start |-> BIOSMEM_END + a * HALF_PAGE,
      end |-> BIOSMEM_END + (a + n) * HALF_PAGE] :
        a \in 0 .. 2, n \in {1, MaxDataHalves}}

\* The command lines: none, or a string of len characters at cmdline.
BootCmdlines ==
    {[cmdline |-> 0, len |-> 0]}
    \cup {[cmdline |-> a * HALF_PAGE, len |-> l] :
              a \in BIOSMEM_END \div HALF_PAGE - 1 .. MaxBootAddr,
              l \in {0, PAGE_SIZE + HALF_PAGE - 1}}

\* The module tables: none, or one module of one or MaxDataHalves half
\* pages, without a command line.
BootModules ==
    {<<>>}
    \cup {<<[mod_start |-> a * HALF_PAGE, mod_end |-> (a + n) * HALF_PAGE,
             string |-> 0, string_len |-> 0, reserved |-> 0]>> :
              a \in {BIOSMEM_END \div HALF_PAGE + 1,
                      BIOSMEM_END \div HALF_PAGE + 3, MaxBootAddr},
              n \in {1, MaxDataHalves}}

\* Where the module table is: in lower memory or in upper memory.
BootModsAddrs == {HALF_PAGE, (MaxBootAddr + 1) * HALF_PAGE}

\* The map of a boot loader: upper kilobytes available from BIOSMEM_END,
\* then a hole of hole kilobytes, reserved, and tail kilobytes available.
BootMmap(upper, hole, tail) ==
    <<[base_addr |-> BIOSMEM_END, length |-> upper * 1024,
       type |-> BIOSMEM_TYPE_AVAILABLE],
      [base_addr |-> BIOSMEM_END + upper * 1024, length |-> hole * 1024,
       type |-> BIOSMEM_TYPE_RESERVED],
      [base_addr |-> BIOSMEM_END + (upper + hole) * 1024,
       length |-> tail * 1024, type |-> BIOSMEM_TYPE_AVAILABLE]>>

\* What the boot loader reports of the memory: mem_lower and mem_upper in
\* KiB alone, or a map as well, mem_upper being the memory from BIOSMEM_END
\* to the first hole.
BootMemories ==
    {[mmap |-> <<>>, mem_lower |-> l, mem_upper |-> 2 * u] :
         l \in {0, (2 * PAGE_SIZE) \div 1024}, u \in 0 .. MaxUpper}
    \cup {[mmap |-> BootMmap(4 * u, 4 * h, 4 * t), mem_lower |-> 0,
           mem_upper |-> 4 * u] :
              u \in {2, 4, 6}, h \in {1, 2}, t \in {1, 2, 4}}

BootInfos ==
    {[flags |-> (IF m.mmap # <<>> THEN {"MMAP"} ELSE {})
                    \cup (IF c.cmdline # 0 THEN {"CMDLINE"} ELSE {})
                    \cup (IF mods # <<>> THEN {"MODULES"} ELSE {}),
      mem_lower |-> m.mem_lower, mem_upper |-> m.mem_upper, mmap |-> m.mmap,
      cmdline |-> c.cmdline, cmdline_len |-> c.len, unused0 |-> 0,
      mods_addr |-> IF mods # <<>> THEN a ELSE 0, mods |-> mods] :
        m \in BootMemories, c \in BootCmdlines, mods \in BootModules,
        a \in BootModsAddrs}

\* The boot loader has loaded the kernel and filled the multiboot
\* information; biosmem.c and vm_page.c hold their static zeroes.
InitBoot ==
    /\ InitPage
    /\ biosmem_map = <<>>
    /\ biosmem_heap_start = 0
    /\ biosmem_heap_cur = 0
    /\ biosmem_heap_end = 0
    /\ biosmem_segments = [s \in SegIndexes |-> ZeroBootSeg]
    /\ phys_last_addr = 0
    /\ \E mbi \in BootInfos : \E kernel \in BootKernels :
           boot = [NoBoot EXCEPT !.mbi = mbi, !.kernel = kernel,
                                 !.mmap = mbi.mmap, !.stage = "loaded"]

\* biosmem_save_cmdline_sizes: boot_strlen of each command line, plus one.
biosmem_save_cmdline_sizes(mbi) ==
    [mbi EXCEPT
        !.unused0 = IF "CMDLINE" \in mbi.flags
                    THEN mbi.cmdline_len + 1 ELSE @,
        !.mods = IF "MODULES" \in mbi.flags
                 THEN [i \in 1 .. Len(mbi.mods) |->
                          [mbi.mods[i] EXCEPT
                              !.reserved = mbi.mods[i].string_len + 1]]
                 ELSE @]

\* biosmem_bootstrap(mbi)
biosmem_bootstrap ==
    /\ boot.stage = "loaded"
    /\ fatal = NoFatal
    /\ \E adjust \in {biosmem_map_adjust(
                          IF "MMAP" \in boot.mbi.flags
                          THEN biosmem_map_build(boot.mbi)
                          ELSE biosmem_map_build_simple(boot.mbi))} :
       \E common \in {biosmem_bootstrap_common(adjust.map)} :
       \E saved \in {biosmem_save_cmdline_sizes(boot.mbi)} :
       \E heap \in {biosmem_setup_allocator(saved, boot.kernel)} :
           /\ biosmem_map' = adjust.map
           /\ fatal' =
                  IF adjust.panic
                  THEN "biosmem: too many memory map entries"
                  ELSE IF common.panic
                  THEN "biosmem: unable to find any memory segment"
                  ELSE IF heap.panic
                  THEN "biosmem: unable to set up the early memory allocator"
                  ELSE NoFatal
           /\ biosmem_segments' = IF adjust.panic \/ common.panic
                                  THEN biosmem_segments
                                  ELSE common.segments
           /\ phys_last_addr' = IF adjust.panic \/ common.panic
                                THEN phys_last_addr
                                ELSE common.phys_last_addr
           /\ IF adjust.panic \/ common.panic \/ heap.panic
              THEN UNCHANGED <<biosmem_heap_start, biosmem_heap_cur,
                               biosmem_heap_end>>
              ELSE /\ biosmem_heap_start' = heap.heap_start
                   /\ biosmem_heap_end' = heap.heap_end
                   /\ biosmem_heap_cur' = heap.heap_end
           /\ boot' = [boot EXCEPT
                          !.mbi = IF adjust.panic \/ common.panic
                                  THEN @ ELSE saved,
                          !.adjusted = TRUE,
                          !.stage = "bootstrapped"]
    /\ UNCHANGED <<vm_page_is_ready, vm_page_segs_size, vm_page_boot_segs,
                   vm_page_segs, thread_vars>>

NextBoot == biosmem_bootstrap

SpecBoot == InitBoot /\ [][NextBoot]_vars

(***************************************************************************)
(* biosmem.c: biosmem_setup and biosmem_free_usable, the handoff of the    *)
(* memory to vm_page.c.                                                    *)
(***************************************************************************)
\* biosmem_load_segment of segment seg_index, vm_page_load and its
\* assertions included, on loaded: the boot segments of vm_page.c, their
\* number, the segments of biosmem.c and whether every assertion has held.
biosmem_load_segment(loaded, seg_index, max_end, phys_start, seg_end, h_start, h_cur) ==
    IF ~loaded.ok \/ (seg_end > max_end /\ max_end <= phys_start)
    THEN loaded
    ELSE LET phys_end == IF seg_end > max_end
                         THEN max_end ELSE seg_end
             avail_start == IF h_start < phys_start
                                  \/ h_start >= phys_end
                            THEN phys_start ELSE h_start
             avail_end == IF h_cur <= phys_start \/ h_cur > phys_end
                          THEN phys_end ELSE h_cur
             segments == [loaded.segments EXCEPT
                             ![seg_index].avail_start = avail_start,
                             ![seg_index].avail_end = avail_end]
         IN  IF /\ seg_index < VM_PAGE_MAX_SEGS
                /\ vm_page_aligned(phys_start)
                /\ vm_page_aligned(phys_end)
                /\ vm_page_aligned(avail_start)
                /\ vm_page_aligned(avail_end)
                /\ phys_start < phys_end
                /\ phys_start <= avail_start
                /\ avail_end <= phys_end
                /\ loaded.segs_size < VM_PAGE_MAX_SEGS
             THEN [boot_segs |->
                       [loaded.boot_segs EXCEPT
                           ![seg_index] = [start |-> phys_start,
                                           end |-> phys_end,
                                           avail_start |-> avail_start,
                                           avail_end |-> avail_end]],
                   segs_size |-> loaded.segs_size + 1,
                   segments |-> segments, ok |-> TRUE]
             ELSE [loaded EXCEPT !.segments = segments, !.ok = FALSE]

\* The loop of biosmem_setup from segment i on; it ends at the first
\* segment without memory.
RECURSIVE SetupLoop(_, _)
SetupLoop(loaded, i) ==
    IF i >= VM_PAGE_MAX_SEGS
           \/ loaded.segments[i].end - loaded.segments[i].start = 0
    THEN loaded
    ELSE SetupLoop(
             biosmem_load_segment(loaded, i, VM_PAGE_HIGHMEM_LIMIT,
                                  loaded.segments[i].start,
                                  loaded.segments[i].end,
                                  biosmem_heap_start, biosmem_heap_cur),
             i + 1)

biosmem_setup ==
    /\ boot.stage = "bootstrapped"
    /\ fatal = NoFatal
    /\ \E loaded \in {SetupLoop([boot_segs |-> vm_page_boot_segs,
                                  segs_size |-> vm_page_segs_size,
                                  segments |-> biosmem_segments,
                                  ok |-> vm_page_is_ready = 0], 0)} :
           /\ vm_page_boot_segs' = loaded.boot_segs
           /\ vm_page_segs_size' = loaded.segs_size
           /\ biosmem_segments' = loaded.segments
           /\ fatal' = IF loaded.ok THEN NoFatal ELSE "assertion"
    /\ boot' = [boot EXCEPT !.stage = "set up"]
    /\ UNCHANGED <<vm_page_is_ready, vm_page_segs, thread_vars, biosmem_map,
                   biosmem_heap_start, biosmem_heap_cur, biosmem_heap_end,
                   phys_last_addr>>

\* What biosmem_free_usable skips, in the order biosmem_free_usable_start
\* looks at them: the kernel, the heap, the window of each segment.
FreeUsableSkipped ==
    <<<<boot.kernel.start, boot.kernel.end>>,
      <<biosmem_heap_start, biosmem_heap_end>>>>
    \o [i \in 1 .. VM_PAGE_MAX_SEGS |->
           <<biosmem_segments[i - 1].avail_start,
             biosmem_segments[i - 1].avail_end>>]

\* biosmem_free_usable_start: biosmem_free_usable_update_start for each of
\* skipped from number k on.
RECURSIVE biosmem_free_usable_start(_, _, _)
biosmem_free_usable_start(skipped, k, addr) ==
    IF k > Len(skipped)
    THEN addr
    ELSE biosmem_free_usable_start(
             skipped, k + 1,
             IF addr >= skipped[k][1] /\ addr < skipped[k][2]
             THEN skipped[k][2] ELSE addr)

biosmem_free_usable_reserved(skipped, addr) ==
    \E k \in 1 .. Len(skipped) : addr >= skipped[k][1] /\ addr < skipped[k][2]

RECURSIVE biosmem_free_usable_end(_, _, _)
biosmem_free_usable_end(skipped, addr, entry_end) ==
    IF addr < entry_end /\ ~biosmem_free_usable_reserved(skipped, addr)
    THEN biosmem_free_usable_end(skipped, addr + PAGE_SIZE, entry_end)
    ELSE addr

\* vm_page_manage(vm_page_lookup_pa(pa)) with the assertion before it, on
\* managed: the segments and whether every assertion has held.
ManagePa(managed, pa) ==
    LET page == vm_page_lookup_pa(managed.segs, vm_page_segs_size, pa)
    IN  IF ~managed.ok
        THEN managed
        ELSE IF page = NULL_PAGE
        THEN [managed EXCEPT !.ok = FALSE]
        ELSE LET seg == managed.segs[page[1]]
                 f == vm_page_seg_free_to_buddy(
                          [seg EXCEPT
                              !.pages = vm_page_set_type(@, page[2], 0,
                                                         VM_PT_FREE)],
                          page[2], 0)
             IN  IF seg.pages[page[2]].type = VM_PT_RESERVED /\ f.ok
                 THEN [segs |-> [managed.segs EXCEPT ![page[1]] = f.seg],
                       ok |-> TRUE]
                 ELSE [managed EXCEPT !.ok = FALSE]

RECURSIVE biosmem_free_usable_range(_, _, _)
biosmem_free_usable_range(managed, addr, end) ==
    IF addr < end
    THEN biosmem_free_usable_range(ManagePa(managed, addr),
                                   addr + PAGE_SIZE, end)
    ELSE managed

RECURSIVE biosmem_free_usable_entry(_, _, _, _)
biosmem_free_usable_entry(skipped, managed, addr, entry_end) ==
    LET from == biosmem_free_usable_start(skipped, 1, addr)
        end == biosmem_free_usable_end(skipped, from, entry_end)
    IN  IF from >= entry_end
        THEN managed
        ELSE biosmem_free_usable_entry(
                 skipped, biosmem_free_usable_range(managed, from, end),
                 end, entry_end)

\* The loop of biosmem_free_usable from entry i on.
RECURSIVE FreeUsableLoop(_, _, _)
FreeUsableLoop(skipped, managed, i) ==
    IF i > Len(biosmem_map)
    THEN managed
    ELSE IF biosmem_map[i].type # BIOSMEM_TYPE_AVAILABLE
    THEN FreeUsableLoop(skipped, managed, i + 1)
    ELSE LET from == vm_page_round(biosmem_map[i].base_addr)
             end == vm_page_trunc(
                        (biosmem_map[i].base_addr + biosmem_map[i].length)
                            % UINT64_MOD)
         IN  IF from >= VM_PAGE_HIGHMEM_LIMIT
             THEN managed
             ELSE FreeUsableLoop(
                      skipped,
                      biosmem_free_usable_entry(
                          skipped, managed,
                          IF from < BIOSMEM_BASE THEN BIOSMEM_BASE ELSE from,
                          end),
                      i + 1)

biosmem_free_usable ==
    /\ boot.stage = "set up"
    /\ vm_page_is_ready = 1
    /\ fatal = NoFatal
    /\ \E managed \in {FreeUsableLoop(FreeUsableSkipped,
                                       [segs |-> vm_page_segs, ok |-> TRUE],
                                       1)} :
           /\ vm_page_segs' = managed.segs
           /\ fatal' = IF managed.ok THEN NoFatal ELSE "assertion"
    /\ boot' = [boot EXCEPT !.stage = "handed off"]
    /\ UNCHANGED <<vm_page_is_ready, vm_page_segs_size, vm_page_boot_segs,
                   thread_vars, biosmem_map, biosmem_heap_start,
                   biosmem_heap_cur, biosmem_heap_end, biosmem_segments,
                   phys_last_addr>>

\* The boots of the handoff: no command line, memory reported by
\* mem_lower and mem_upper or by a map with a hole.
InitHandoff ==
    /\ InitPage
    /\ biosmem_map = <<>>
    /\ biosmem_heap_start = 0
    /\ biosmem_heap_cur = 0
    /\ biosmem_heap_end = 0
    /\ biosmem_segments = [s \in SegIndexes |-> ZeroBootSeg]
    /\ phys_last_addr = 0
    /\ \E mbi \in BootInfos : \E kernel \in BootKernels :
           /\ mbi.cmdline = 0
           /\ mbi.mods = <<>> \/ mbi.mods_addr = HALF_PAGE
           /\ mbi.mem_upper % 8 = 0
           /\ mbi.mem_upper > 0
           /\ boot = [NoBoot EXCEPT !.mbi = mbi, !.kernel = kernel,
                                    !.mmap = mbi.mmap, !.stage = "loaded"]

\* The boot: biosmem_bootstrap, the calls of biosmem_bootalloc the
\* bootstrap of the pmap module makes, biosmem_setup, vm_page_setup and
\* biosmem_free_usable.
NextHandoff ==
    \/ biosmem_bootstrap
    \/ /\ boot.stage = "bootstrapped"
       /\ \E nr_pages \in 1 .. 2 : biosmem_bootalloc(nr_pages)
    \/ biosmem_setup
    \/ boot.stage = "set up" /\ vm_page_setup /\ UNCHANGED biosmem_vars
    \/ biosmem_free_usable

SpecHandoff == InitHandoff /\ [][NextHandoff]_vars

(***************************************************************************)
(* Properties.                                                             *)
(***************************************************************************)
\* C1: in every state, so after every operation (setup, manage, alloc_pa and
\* free_pa of any order, pool refill and drain included), nr_free_pages of
\* every segment is the sum over the orders i of free_lists[i].size * 2^i.
C1_FreeListAccounting ==
    \A s \in LoadedSegs :
        vm_page_segs[s].nr_free_pages = FreeListPages(vm_page_segs[s])

\* A block was split (free blocks of two orders), a pool holds a page and a
\* caller holds a block.
C1_Witness ==
    /\ held # {}
    /\ \E s \in SegIndexes :
           /\ vm_page_segs[s].free_lists[0].size > 0
           /\ vm_page_segs[s].free_lists[1].size > 0
           /\ PooledPages(vm_page_segs[s]) > 0

\* C2: under any interleaving of the calls of the processors, no page frame
\* has two owners among the free-list blocks, the pooled pages, the blocks
\* callers hold and the blocks vm_page_alloc_pa returns.
C2_ExclusiveOwnership ==
    \A s \in LoadedSegs :
        LET owners == Owners(s)
        IN  \A a \in owners : \A b \in owners : a # b => ~Overlap(a, b)

\* Two processors have a block returned at the same time by calls on the
\* same segment, whose pools still hold a page.
C2_Witness ==
    /\ \A t \in Threads : pc[t] = "alloc_done" /\ th[t].page # NULL
    /\ th[1].i = th[2].i
    /\ PooledPages(vm_page_segs[th[1].i]) > 0

\* C3: in every state no two blocks on the free lists of a segment share a
\* page, and the first pages of the free blocks are exactly the pages with
\* type FREE and an order other than UNLISTED.
C3_BuddyExclusivity ==
    \A s \in LoadedSegs :
        LET seg == vm_page_segs[s]
            listed == ListedBlocks(seg)
        IN  /\ \A a \in listed : \A b \in listed : a # b => ~Overlap(a, b)
            /\ {b.page : b \in listed}
                   = {k \in DOMAIN seg.pages :
                         /\ seg.pages[k].type = VM_PT_FREE
                         /\ seg.pages[k].order # VM_PAGE_ORDER_UNLISTED}

\* A caller holds a block, and a segment has free blocks of two orders next
\* to a free page that is on no list (pooled).
C3_Witness ==
    /\ held # {}
    /\ \E s \in SegIndexes :
           LET seg == vm_page_segs[s]
           IN  /\ seg.free_lists[0].size > 0
               /\ seg.free_lists[1].size > 0
               /\ \E k \in DOMAIN seg.pages :
                      /\ seg.pages[k].type = VM_PT_FREE
                      /\ seg.pages[k].order = VM_PAGE_ORDER_UNLISTED
                      /\ \A b \in ListedBlocks(seg) :
                             k \notin BlockPages(b.page, b.order)

\* C4: in every state a descriptor with order o other than UNLISTED is
\* linked once in free list o of its own segment and in no other list, the
\* 2^o pages from it on have type FREE, and the other 2^o - 1 have order
\* UNLISTED; a descriptor with a type other than FREE has order UNLISTED and
\* is on no free list.
C4_DescriptorState ==
    \A s \in LoadedSegs :
        LET seg == vm_page_segs[s]
            listed == ListedBlocks(seg)
        IN  \A k \in DOMAIN seg.pages :
                LET d == seg.pages[k]
                    nodes == {b \in listed : b.page = k}
                IN  /\ d.order # VM_PAGE_ORDER_UNLISTED =>
                           /\ d.order \in FreeListOrders
                           /\ d.seg_index = s
                           /\ Cardinality(nodes) = 1
                           /\ \A b \in nodes : b.order = d.order
                           /\ \A j \in BlockPages(k, d.order) :
                                  /\ j \in DOMAIN seg.pages
                                  /\ seg.pages[j].type = VM_PT_FREE
                           /\ \A j \in BlockPages(k, d.order) \ {k} :
                                  seg.pages[j].order = VM_PAGE_ORDER_UNLISTED
                    /\ d.type # VM_PT_FREE =>
                           /\ d.order = VM_PAGE_ORDER_UNLISTED
                           /\ nodes = {}

\* A block of two pages or more was allocated and freed again and is on a
\* free list, while another block is allocated.
C4_Witness ==
    /\ hist.stage = "freed"
    /\ hist.order >= 1
    /\ held # {}
    /\ \E k \in DOMAIN vm_page_segs[hist.seg].pages :
           LET d == vm_page_segs[hist.seg].pages[k]
           IN  /\ d.order # VM_PAGE_ORDER_UNLISTED
               /\ d.order >= 1
               /\ hist.page \in BlockPages(k, d.order)

\* C5, as the code has it: vm_page_alloc_pa(o, sel, t) returning p followed,
\* with no other operation in between, by vm_page_free_pa(p, o) leaves
\* nr_free_pages of p's segment as it was for o >= 1; for o = 0 it leaves
\* nr_free_pages plus the number of pages in the segment's CPU pools as it
\* was.
C5_AllocFreeRoundTrip ==
    hist.stage = "freed" =>
        LET before == hist.segs[hist.seg]
            after == vm_page_segs[hist.seg]
        IN  IF hist.order >= 1
            THEN after.nr_free_pages = before.nr_free_pages
            ELSE after.nr_free_pages + PooledPages(after)
                     = before.nr_free_pages + PooledPages(before)

\* A block of two pages or more went through the round trip.
C5_Witness ==
    /\ hist.stage = "freed"
    /\ hist.order >= 1
    /\ vm_page_segs[hist.seg].nr_free_pages >= 2 ^ hist.order

\* C5 as stated: the round trip leaves nr_free_pages of p's segment as it
\* was, for every order, order 0 included.
C5_AsStated ==
    hist.stage = "freed" =>
        vm_page_segs[hist.seg].nr_free_pages
            = hist.segs[hist.seg].nr_free_pages

\* C6, as the code has it: after a sequence of vm_page_alloc_pa and
\* vm_page_free_pa calls none of which has order 0, every block freed with
\* the order it was allocated with, the free-list sizes of every segment
\* are what they were when the sequence began.
C6_BalancedSequence ==
    (start.begun /\ ~start.order0 /\ held = {} /\ AllIdle) =>
        FreeListSizes(vm_page_segs) = start.sizes

\* A sequence without order 0 has ended, its last call a free whose block
\* merged into a larger one.
C6_Witness ==
    /\ start.begun
    /\ ~start.order0
    /\ held = {}
    /\ AllIdle
    /\ hist.stage = "freed"
    /\ vm_page_segs[hist.seg].pages[hist.page].order # hist.order

\* C6 as stated: the same of any sequence, order 0 included.
C6_AsStated ==
    (start.begun /\ held = {} /\ AllIdle) =>
        FreeListSizes(vm_page_segs) = start.sizes

\* C7: a call that has returned tried the segments in descending order of
\* index, the first being MIN(the selector's segment, the highest segment
\* loaded); no segment tried before the last could give a block; the block
\* returned is of the last segment tried, which is not above the
\* selector's; NULL is returned only after segment 0 was tried.
C7_SegmentWalk ==
    \A t \in Threads :
        Returned(t) =>
            LET tried == th[t].tried
                first == MIN(SelectorSegIndex(th[t].selector),
                             vm_page_segs_size - 1)
            IN  /\ tried # <<>>
                /\ tried[1] = first
                /\ \A n \in 2 .. Len(tried) : tried[n] = tried[n - 1] - 1
                /\ \A n \in 1 .. Len(tried) - 1 :
                       ~CanSatisfy(hist.segs[tried[n]], cpu_number(t),
                                   th[t].order)
                /\ IF th[t].page = NULL
                   THEN tried[Len(tried)] = 0
                   ELSE /\ th[t].i = tried[Len(tried)]
                        /\ th[t].i <= SelectorSegIndex(th[t].selector)
                        /\ CanSatisfy(hist.segs[th[t].i], cpu_number(t),
                                      th[t].order)

\* A DIRECTMAP request found nothing in the highest segment and got its
\* block from segment 0.
C7_Witness ==
    \E t \in Threads :
        /\ Returned(t)
        /\ th[t].selector = VM_PAGE_SEL_DIRECTMAP
        /\ th[t].tried = <<1, 0>>
        /\ th[t].page # NULL

\* C8, as the code has it: when no segment the selector permits has a
\* free-list block of at least the order asked for and, for order 0, the
\* calling processor's pool in each of them is empty, vm_page_alloc_pa
\* with a type other than PMAP returns NULL.
C8_SoftFailure ==
    \A t \in Threads :
        (/\ Returned(t)
         /\ th[t].type # VM_PT_PMAP
         /\ \A s \in PermittedSegs(th[t].selector) :
                ~CanSatisfy(hist.segs[s], cpu_number(t), th[t].order))
            => th[t].page = NULL

\* A DMA request returned NULL with the DMA segment exhausted while the
\* segment above has free pages.
C8_Witness ==
    \E t \in Threads :
        /\ Returned(t)
        /\ th[t].selector = VM_PAGE_SEL_DMA
        /\ th[t].type # VM_PT_PMAP
        /\ ~CanSatisfy(hist.segs[0], cpu_number(t), th[t].order)
        /\ vm_page_segs_size = 2
        /\ vm_page_segs[1].nr_free_pages > 0
        /\ th[t].page = NULL

\* C8 as stated: no free-list block of at least the order asked for in any
\* permitted segment, and the call returns NULL.
C8_AsStated ==
    \A t \in Threads :
        (/\ Returned(t)
         /\ th[t].type # VM_PT_PMAP
         /\ \A s \in PermittedSegs(th[t].selector) :
                ~HasFreeBlock(hist.segs[s], th[t].order))
            => th[t].page = NULL

\* C9: a call that returns NULL leaves the segment table (free lists, size
\* counters, nr_free_pages, CPU pools, the type and order of every
\* descriptor) as it was when the call was made.
C9_NullLeavesState ==
    \A t \in Threads :
        (Returned(t) /\ th[t].page = NULL) => vm_page_segs = hist.segs

\* One more request of an order of which a block is held returned NULL
\* after both segments were tried.
C9_Witness ==
    \E t \in Threads :
        /\ Returned(t)
        /\ th[t].page = NULL
        /\ th[t].tried = <<1, 0>>
        /\ \E b \in held : b.order = th[t].order

\* C10: vm_page_alloc_pa with type PMAP never returns NULL; the kernel
\* panics when the walk ends without a page, which is when no permitted
\* segment could give one.
C10_PmapNeverNull ==
    /\ \A t \in Threads :
           (pc[t] = "alloc_done" /\ th[t].type = VM_PT_PMAP)
               => th[t].page # NULL
    /\ fatal = "vm_page: unable to allocate pmap page" =>
           \E t \in Threads :
               /\ pc[t] = "alloc_pa"
               /\ th[t].type = VM_PT_PMAP
               /\ ~(th[t].i < vm_page_segs_size)
               /\ hist.thread = t
               /\ \A s \in PermittedSegs(th[t].selector) :
                      ~CanSatisfy(hist.segs[s], cpu_number(t), th[t].order)

\* A PMAP request found no page in any segment: the kernel has panicked.
C10_Witness ==
    /\ fatal = "vm_page: unable to allocate pmap page"
    /\ \E t \in Threads : th[t].type = VM_PT_PMAP /\ th[t].tried = <<1, 0>>

\* C11: in every state, under any interleaving of the calls, every CPU
\* pool has 0 <= nr_pages <= size and nr_pages pages linked in its list, and
\* no assertion (those of pop, push, fill and drain among them) has failed.
C11_PoolCapacity ==
    /\ fatal # "assertion"
    /\ \A s \in LoadedSegs : \A c \in CPUs :
           LET cpu_pool == vm_page_segs[s].cpu_pools[c]
           IN  /\ 0 <= cpu_pool.nr_pages
               /\ cpu_pool.nr_pages <= cpu_pool.size
               /\ cpu_pool.nr_pages = Len(cpu_pool.pages)

\* One processor is about to drain its full pool of two pages while the
\* other refills its empty pool of the same segment.
C11_Witness ==
    \E t \in Threads : \E u \in Threads :
        /\ pc[t] = "seg_free_drain"
        /\ vm_page_segs[th[t].i].cpu_pools[th[t].cpu].nr_pages = 2
        /\ pc[u] = "seg_alloc_pool"
        /\ th[u].i = th[t].i
        /\ vm_page_segs[th[u].i].cpu_pools[cpu_number(u)].nr_pages = 0

\* C12: vm_page_free_pa of a block that is already free and has not been
\* allocated again since, with any order, fails an assertion and leaves the
\* segment table (free lists, pools, counters, descriptors) as the call
\* found it.
C12_DoubleFreeAsserts ==
    hist.stage = "double_free" =>
        /\ fatal = "assertion"
        /\ vm_page_segs = hist.segs
        /\ AllIdle

\* A page lying in a processor's pool has been freed again as a block of
\* two pages.
C12_Witness ==
    /\ hist.stage = "double_free"
    /\ fatal = "assertion"
    /\ hist.order = 1
    /\ \E c \in CPUs :
           \E n \in 1 .. Len(vm_page_segs[hist.seg].cpu_pools[c].pages) :
               vm_page_segs[hist.seg].cpu_pools[c].pages[n] = hist.page

\* C13 as stated: a vm_page_alloc_pa called before vm_page_setup has
\* completed fails an assertion, so it never returns to its caller.
C13_AsStated ==
    \A t \in Threads :
        (hist.stage = "early" /\ hist.thread = t) => pc[t] # "alloc_done"

\* C14 as stated: once vm_page_free_pa has been called for a held block with
\* an order other than the one it was allocated with, an assertion has
\* failed.
C14_AsStated ==
    hist.stage = "wrong_order" => fatal = "assertion"

\* The addresses vm_page_lookup_pa is asked about: the first and the last
\* byte of every frame up to MaxProbeFrame.
ProbeAddresses ==
    {vm_page_ptoa(f) + off : f \in 0 .. MaxProbeFrame, off \in {0, PAGE_SIZE - 1}}

Covers(entry, x) ==
    /\ entry.base_addr <= x
    /\ x < entry.base_addr + entry.length

\* The entries of a map that cover address x, by position.
Covering(map, x) == {k \in 1 .. Len(map) : Covers(map[k], x)}

\* The valid entries of the map the boot loader passed that cover x.
InputsCovering(x) ==
    {k \in Covering(boot.mmap, x) :
        ~biosmem_map_entry_is_invalid(boot.mmap[k])}

MapAddresses == (0 .. MaxBase + MaxLength) \cup {UINT64_MOD - 1}

\* biosmem_map_adjust has run to its end.
Adjusted == boot.adjusted /\ fatal = NoFatal

\* C16 as stated: after biosmem_map_adjust, whatever map was passed, the map
\* is sorted by base address, no two entries overlap, and every length is
\* greater than 0.
C16_AsStated ==
    Adjusted =>
        /\ \A k \in 1 .. Len(biosmem_map) - 1 :
               biosmem_map[k].base_addr <= biosmem_map[k + 1].base_addr
        /\ \A k \in 1 .. Len(biosmem_map) : \A l \in 1 .. Len(biosmem_map) :
               k < l =>
                   \/ biosmem_map[k].base_addr + biosmem_map[k].length
                          <= biosmem_map[l].base_addr
                   \/ biosmem_map[l].base_addr + biosmem_map[l].length
                          <= biosmem_map[k].base_addr
        /\ \A k \in 1 .. Len(biosmem_map) : biosmem_map[k].length > 0

\* C17 as stated: after biosmem_map_adjust an address that valid entries of
\* the input cover is covered by exactly one entry, of the highest type among
\* those input entries, and an address no valid input entry covers is
\* covered by no entry.
C17_AsStated ==
    Adjusted =>
        \A x \in MapAddresses :
            IF InputsCovering(x) = {}
            THEN Covering(biosmem_map, x) = {}
            ELSE /\ Cardinality(Covering(biosmem_map, x)) = 1
                 /\ \A k \in Covering(biosmem_map, x) :
                    \A l \in InputsCovering(x) :
                        biosmem_map[k].type >= boot.mmap[l].type
                 /\ \A k \in Covering(biosmem_map, x) :
                    \E l \in InputsCovering(x) :
                        biosmem_map[k].type = boot.mmap[l].type

\* C18 as stated: with a map of at most BIOSMEM_MAX_MAP_SIZE entries,
\* biosmem_map_adjust never needs more than the 2 * BIOSMEM_MAX_MAP_SIZE
\* entries of the array: it ends without the panic "too many memory map
\* entries".
C18_AsStated ==
    boot.adjusted =>
        /\ fatal # "biosmem: too many memory map entries"
        /\ Len(biosmem_map) <= BIOSMEM_MAP_ARRAY_SIZE

\* The bytes of a block biosmem_bootalloc returned end at BlockEnd.
BlockEnd(alloc) == alloc.addr + vm_page_ptoa(alloc.nr_pages)

\* biosmem_bootalloc has been called; boot.last is its last call.
BootallocCalled == boot.last # NoBootalloc

\* C19: without MACH_HYP, a biosmem_bootalloc(n) made before the page
\* allocator is ready with n >= 1 either panics, heap_cur unchanged, or
\* returns heap_cur - n * PAGE_SIZE and leaves heap_cur at that address; the
\* blocks returned are page-aligned, pairwise disjoint and inside
\* [heap_start, heap_end); with n = 0 it panics; made once the page
\* allocator is ready it fails its assertion.
C19_TopDownBootalloc ==
    (~boot.mach_hyp /\ BootallocCalled) =>
        LET last == boot.last
        IN  /\ last.ready # 0 =>
                   /\ last.addr = NULL
                   /\ fatal = "assertion"
                   /\ biosmem_heap_cur = last.cur
            /\ (last.ready = 0 /\ last.nr_pages = 0) =>
                   /\ last.addr = NULL
                   /\ fatal = "biosmem: attempt to allocate 0 page"
                   /\ biosmem_heap_cur = last.cur
            /\ (last.ready = 0 /\ last.nr_pages >= 1) =>
                   \/ /\ last.addr = NULL
                      /\ fatal = "biosmem: unable to allocate memory"
                      /\ biosmem_heap_cur = last.cur
                   \/ /\ last.addr = last.cur - vm_page_ptoa(last.nr_pages)
                      /\ biosmem_heap_cur = last.addr
            /\ \A k \in 1 .. Len(boot.allocs) :
                   /\ vm_page_aligned(boot.allocs[k].addr)
                   /\ vm_page_aligned(BlockEnd(boot.allocs[k]))
                   /\ biosmem_heap_start <= boot.allocs[k].addr
                   /\ BlockEnd(boot.allocs[k]) <= biosmem_heap_end
                   /\ \A l \in 1 .. Len(boot.allocs) :
                          k < l =>
                              \/ BlockEnd(boot.allocs[k]) <= boot.allocs[l].addr
                              \/ BlockEnd(boot.allocs[l]) <= boot.allocs[k].addr

\* Two blocks have used the heap up and a third request has panicked.
C19_Witness ==
    /\ ~boot.mach_hyp
    /\ Len(boot.allocs) = 2
    /\ biosmem_heap_cur = biosmem_heap_start
    /\ boot.last.nr_pages >= 1
    /\ boot.last.addr = NULL
    /\ fatal = "biosmem: unable to allocate memory"

\* C20 as stated: after any sequence of biosmem_bootalloc calls, top-down and
\* bottom-up (MACH_HYP) alike, heap_start <= heap_cur <= heap_end, and a
\* request that would pass the bound panics, heap_cur unchanged.
C20_AsStated ==
    /\ biosmem_heap_start <= biosmem_heap_cur
    /\ biosmem_heap_cur <= biosmem_heap_end
    /\ \A k \in 1 .. Len(boot.allocs) :
           /\ biosmem_heap_start <= boot.allocs[k].addr
           /\ BlockEnd(boot.allocs[k]) <= biosmem_heap_end

\* C30: vm_page_seg_alloc_from_buddy(seg, o), on every segment the
\* allocator reaches and every order o: with no free block of order >= o
\* it returns NULL and changes nothing; otherwise it returns the head of
\* the lowest-order list i >= o that is not empty, unlisted; list i has
\* that one block fewer, every list j with o <= j < i has one block more,
\* the upper half 2^j pages above the head, of order j; the other lists are
\* unchanged and nr_free_pages is 2^o less.
C30_AllocFromBuddy ==
    \A s \in LoadedSegs : \A o \in FreeListOrders :
        LET seg == vm_page_segs[s]
            a == vm_page_seg_alloc_from_buddy(seg, o)
            nonempty == {k \in o .. VM_PAGE_NR_FREE_LISTS - 1 :
                            seg.free_lists[k].blocks # <<>>}
        IN  IF nonempty = {}
            THEN a.page = NULL /\ a.seg = seg
            ELSE LET i == CHOOSE k \in nonempty : \A l \in nonempty : k <= l
                     head == Head(seg.free_lists[i].blocks)
                 IN  /\ a.ok
                     /\ a.page = head
                     /\ a.seg.pages[head].order = VM_PAGE_ORDER_UNLISTED
                     /\ a.seg.free_lists[i].size = seg.free_lists[i].size - 1
                     /\ a.seg.free_lists[i].blocks
                            = Tail(seg.free_lists[i].blocks)
                     /\ \A j \in o .. i - 1 :
                            /\ a.seg.free_lists[j].size = 1
                            /\ a.seg.free_lists[j].blocks = <<head + 2 ^ j>>
                            /\ a.seg.pages[head + 2 ^ j].order = j
                     /\ \A j \in FreeListOrders \ (o .. i) :
                            a.seg.free_lists[j] = seg.free_lists[j]
                     /\ a.seg.nr_free_pages = seg.nr_free_pages - 2 ^ o

\* A thread has been returned the lower half of a split block of order 2:
\* the upper half is on the list of order 1.
C30_Witness ==
    \E t \in Threads :
        /\ pc[t] = "alloc_done"
        /\ th[t].order = 1
        /\ th[t].page # NULL
        /\ th[t].page + 2 \in DOMAIN vm_page_segs[th[t].i].pages
        /\ vm_page_segs[th[t].i].pages[th[t].page + 2].order = 1
        /\ vm_page_segs[th[t].i].free_lists[1].blocks = <<th[t].page + 2>>

\* The segment locks and the pool locks thread t holds in a segment table.
SegLocks(segs, t) == {s \in SegIndexes : segs[s].lock = t}

PoolLocks(segs, t) ==
    {sc \in SegIndexes \X CPUs : segs[sc[1]].cpu_pools[sc[2]].lock = t}

\* C26: in every interleaving of the processors, a step in which a thread
\* acquires a pool lock finds it, and leaves it, with no segment lock and
\* no other pool lock; a step in which it acquires a segment lock finds it
\* with no segment lock; a thread never holds two segment locks or two pool
\* locks; a thread that holds a pool lock and a segment lock together is in
\* vm_page_cpu_pool_fill or vm_page_cpu_pool_drain, on that pool's segment,
\* and took the pool lock first.
C26_LockOrder ==
    [][\A t \in Threads :
          LET segs == SegLocks(vm_page_segs, t)
              pools == PoolLocks(vm_page_segs, t)
              segs2 == SegLocks(vm_page_segs', t)
              pools2 == PoolLocks(vm_page_segs', t)
          IN  /\ (pools2 \ pools # {}) =>
                     segs = {} /\ segs2 = {} /\ pools = {}
              /\ (segs2 \ segs # {}) => segs = {}
              /\ Cardinality(segs2) <= 1
              /\ Cardinality(pools2) <= 1
              /\ (segs2 # {} /\ pools2 # {}) =>
                     /\ pc'[t] \in {"seg_alloc_fill", "seg_free_drain"}
                     /\ pools2 = pools
                     /\ \A sc \in pools2 : segs2 = {sc[1]}]_vars

\* A thread holds the lock of its processor's pool and the lock of the
\* segment, inside vm_page_cpu_pool_fill, while the other thread holds the
\* lock of its own pool.
C26_Witness ==
    \E t \in Threads : \E u \in Threads \ {t} :
        /\ pc[t] = "seg_alloc_fill"
        /\ SegLocks(vm_page_segs, t) # {}
        /\ PoolLocks(vm_page_segs, t) # {}
        /\ PoolLocks(vm_page_segs, u) # {}

\* C29 as stated: once vm_page_is_ready is set, a step that changes the
\* free lists, their sizes or nr_free_pages of a segment is made by the
\* thread that holds the segment's lock, a step that changes the page list
\* or nr_pages of a pool by the thread that holds the pool's lock, and a
\* thread that reads nr_free_pages of a segment holds that segment's lock.
C29_AsStated ==
    [][vm_page_is_ready = 1 =>
          \A s \in LoadedSegs :
              LET seg == vm_page_segs[s]
                  seg2 == vm_page_segs'[s]
              IN  /\ (\/ seg2.free_lists # seg.free_lists
                      \/ seg2.nr_free_pages # seg.nr_free_pages) =>
                         /\ seg.lock \in Threads
                         /\ pc'[seg.lock] # pc[seg.lock]
                  /\ \A c \in CPUs :
                         (\/ seg2.cpu_pools[c].pages # seg.cpu_pools[c].pages
                          \/ seg2.cpu_pools[c].nr_pages
                                 # seg.cpu_pools[c].nr_pages) =>
                             /\ seg.cpu_pools[c].lock \in Threads
                             /\ pc'[seg.cpu_pools[c].lock]
                                    # pc[seg.cpu_pools[c].lock]
                  /\ \A t \in Threads :
                         (/\ th'[t].op = "mem_free"
                          /\ th'[t] # th[t]
                          /\ s <= VM_PAGE_SEG_DIRECTMAP) => seg.lock = t]_vars

\* C27: with fair lock acquisition, whatever the other processor does,
\* every call of vm_page_alloc_pa and vm_page_free_pa returns: a thread
\* inside a call is eventually outside, with a block or NULL, never stuck on
\* a lock and never waiting for memory; and a thread whose call has returned
\* holds no pool lock and no segment lock (thread_unpin, an empty macro,
\* follows the last unlock on every path).
C27_CallsReturn ==
    /\ \A t \in Threads : (pc[t] # "idle") ~> (pc[t] = "idle")
    /\ [](\A t \in Threads :
              pc[t] \in {"idle", "alloc_done"} =>
                  /\ SegLocks(vm_page_segs, t) = {}
                  /\ PoolLocks(vm_page_segs, t) = {})

\* A thread holds its pool lock, its pool empty, and needs the segment lock
\* another thread holds.
C27_Witness ==
    \E t \in Threads : \E u \in Threads \ {t} :
        /\ pc[t] = "seg_alloc_pool"
        /\ vm_page_segs[th[t].i].cpu_pools[th[t].cpu].nr_pages = 0
        /\ vm_page_segs[th[t].i].lock = u

\* biosmem_bootstrap has returned: no panic.
Bootstrapped == boot.stage = "bootstrapped" /\ fatal = NoFatal

\* The boot data biosmem_find_boot_data visits, as <<start, end>>.
BootDataRegions ==
    {BootData(boot.mbi, boot.kernel)[k] :
        k \in 1 .. Len(BootData(boot.mbi, boot.kernel))}

\* C21: for every multiboot information, boot data that overlap each
\* other, share a start or start below BIOSMEM_END and end above it
\* included, the heap [heap_start, heap_end) biosmem_setup_allocator has
\* chosen intersects none of the boot data.
C21_AsStated ==
    Bootstrapped =>
        \A d \in BootDataRegions :
            ~(d[1] < biosmem_heap_end /\ biosmem_heap_start < d[2])

\* The page frames of the bootstrap heap, by address.
HeapFrames ==
    {vm_page_ptoa(f) : f \in vm_page_atop(biosmem_heap_start)
                                .. vm_page_atop(biosmem_heap_end - 1)}

\* The page frame at address a lies inside an available entry of the map.
FrameAvailable(map, a) ==
    \E k \in 1 .. Len(map) :
        /\ map[k].type = BIOSMEM_TYPE_AVAILABLE
        /\ map[k].base_addr <= a
        /\ a + PAGE_SIZE <= map[k].base_addr + map[k].length

\* The boot data are apart from each other and none starts below
\* BIOSMEM_END.
BootDataApart ==
    LET data == BootData(boot.mbi, boot.kernel)
    IN  /\ \A k \in 1 .. Len(data) : BIOSMEM_END <= data[k][1]
        /\ \A k, l \in 1 .. Len(data) :
               k # l => data[k][2] <= data[l][1] \/ data[l][2] <= data[k][1]

\* The page frames from BIOSMEM_END to the end of upper memory, below
\* VM_PAGE_DIRECTMAP_LIMIT, that hold no boot data.
GapFrames ==
    {a \in {vm_page_ptoa(f) :
                f \in vm_page_atop(BIOSMEM_END)
                          .. vm_page_atop(VM_PAGE_DIRECTMAP_LIMIT) - 1} :
        /\ a + PAGE_SIZE <= BIOSMEM_END + boot.mbi.mem_upper * 1024
        /\ \A d \in BootDataRegions : d[2] <= a \/ a + PAGE_SIZE <= d[1]}

HighestEnd(segments, considered) ==
    LET ends == {segments[s].end : s \in considered}
    IN  CHOOSE e \in ends : \A f \in ends : f <= e

\* C28 as stated: after the bootstrap phys_last_addr is the highest end
\* among all the segments, VM_PAGE_SEG_HIGHMEM included.
C28_AsStated ==
    Bootstrapped =>
        phys_last_addr = HighestEnd(biosmem_segments, SegIndexes)

\* C28: after the bootstrap phys_last_addr is the highest end among the
\* segments of the direct physical mapping, VM_PAGE_SEG_DMA to
\* VM_PAGE_SEG_DIRECTMAP, which is what biosmem_directmap_size returns;
\* VM_PAGE_SEG_HIGHMEM does not count.
C28_LastAddrDirectmap ==
    Bootstrapped =>
        /\ phys_last_addr
               = HighestEnd(biosmem_segments,
                            SegIndexes \ {VM_PAGE_SEG_HIGHMEM})
        /\ phys_last_addr = biosmem_directmap_size(biosmem_segments)

\* The bootstrap has found memory for VM_PAGE_SEG_HIGHMEM.
C28_Witness ==
    /\ Bootstrapped
    /\ biosmem_segments[VM_PAGE_SEG_HIGHMEM].end
           > biosmem_segments[VM_PAGE_SEG_HIGHMEM].start
    /\ phys_last_addr = biosmem_segments[VM_PAGE_SEG_DIRECTMAP].end

\* biosmem_free_usable has returned: no panic, no failed assertion.
HandedOff == boot.stage = "handed off" /\ fatal = NoFatal

\* The page frame at address a has a descriptor of type VM_PT_FREE.
FrameFree(a) ==
    LET page == vm_page_lookup_pa(vm_page_segs, vm_page_segs_size, a)
    IN  /\ page # NULL_PAGE
        /\ vm_page_segs[page[1]].pages[page[2]].type = VM_PT_FREE

\* The addresses of all page frames below VM_PAGE_HIGHMEM_LIMIT.
AllFrames ==
    {vm_page_ptoa(f) : f \in 0 .. vm_page_atop(VM_PAGE_HIGHMEM_LIMIT) - 1}

\* C23: after the handoff no page frame biosmem_bootalloc has handed out is
\* free, wherever heap_cur has ended, a heap over two segments included.
C23_AsStated ==
    HandedOff =>
        \A k \in 1 .. Len(boot.allocs) : \A a \in AllFrames :
            (/\ a >= boot.allocs[k].addr
             /\ a < boot.allocs[k].addr + vm_page_ptoa(boot.allocs[k].nr_pages))
                => ~FrameFree(a)

\* C24: after the handoff no page frame that holds a part of the kernel
\* image [_start, _end) is free, wherever the kernel is and whether _end is
\* page-aligned or not.
C24_AsStated ==
    HandedOff =>
        \A a \in AllFrames :
            (a < boot.kernel.end /\ boot.kernel.start < a + PAGE_SIZE)
                => ~FrameFree(a)

\* C25: after the handoff every free page frame lies inside an available
\* entry of the adjusted map.
C25_AsStated ==
    HandedOff =>
        \A a \in AllFrames : FrameFree(a) => FrameAvailable(biosmem_map, a)

(***************************************************************************)
(* The allocator on segments of any place and size: vm_page_load is given  *)
(* one segment that starts at any page frame up to MaxBuddyStart, aligned  *)
(* on a block size or not, and has up to MaxBuddyFrames frames, the first  *)
(* or the last of which is left for the page table; vm_page_manage         *)
(* releases the others in any order, and blocks of up to 2^MaxBuddyOrder   *)
(* pages are allocated and freed by the thread of the boot processor.      *)
(***************************************************************************)
MaxBuddyStart == 5

MaxBuddyFrames == 6

MaxBuddyOrder == 2

BuddyLoadInputs ==
    UNION {{<<first, first + n, first, first + 1>>,
            <<first, first + n, first + n - 1, first + n>>} :
              first \in 3 .. MaxBuddyStart, n \in 4 .. MaxBuddyFrames}

BuddyInputs ==
    {<<order, VM_PAGE_SEL_DIRECTMAP, VM_PT_KERNEL>> :
        order \in 0 .. MaxBuddyOrder}

LoadBuddy ==
    /\ vm_page_segs_size = 0
    /\ \E a \in BuddyLoadInputs :
           vm_page_load(0, vm_page_ptoa(a[1]), vm_page_ptoa(a[2]),
                        vm_page_ptoa(a[3]), vm_page_ptoa(a[4]))

NextBuddy ==
    \/ LoadBuddy /\ UNCHANGED biosmem_vars
    \/ vm_page_setup /\ UNCHANGED biosmem_vars
    \/ Manage /\ UNCHANGED biosmem_vars
    \/ vm_page_alloc_pa(1, BuddyInputs) /\ UNCHANGED biosmem_vars
    \/ vm_page_free_pa(1) /\ UNCHANGED biosmem_vars

SpecBuddy == Init /\ [][NextBuddy]_vars

(***************************************************************************)
(* Properties of the buddy system on segments of any place and size.       *)
(***************************************************************************)
\* The physical address of page number page of a segment.
PagePa(seg, page) == seg.pages[page].phys_addr

\* C31: in every state every block on free list o of a segment starts at a
\* physical address that is a multiple of 2^o * PAGE_SIZE, wherever the
\* segment starts, and so does every block vm_page_alloc_pa(o, ...) has
\* returned.
C31_BlockAlignment ==
    /\ \A s \in LoadedSegs : \A b \in ListedBlocks(vm_page_segs[s]) :
           PagePa(vm_page_segs[s], b.page) % vm_page_ptoa(2 ^ b.order) = 0
    /\ \A t \in Threads :
           pc[t] = "alloc_done" /\ th[t].page # NULL =>
               PagePa(vm_page_segs[th[t].i], th[t].page)
                   % vm_page_ptoa(2 ^ th[t].order) = 0

\* A segment that starts at an odd page frame has a free block of two pages
\* or more, and a block of two pages, split from a larger one, is returned.
C31_Witness ==
    \E t \in Threads :
        /\ pc[t] = "alloc_done"
        /\ th[t].page # NULL
        /\ th[t].order = 1
        /\ vm_page_segs[th[t].i].start % vm_page_ptoa(2) # 0
        /\ \E b \in ListedBlocks(vm_page_segs[th[t].i]) :
               b.order >= 1 /\ b.page = th[t].page + 2

\* The XOR buddy of a block of a segment is outside the segment.
BuddyOutside(seg, page, order) ==
    LET buddy_pa == BitXor(PagePa(seg, page), vm_page_ptoa(2 ^ order))
    IN  buddy_pa < seg.start \/ buddy_pa >= seg.end

\* C32: in every state every free block of order o lies inside
\* [start, end) of its segment, for segments whose start or size is no
\* multiple of the largest block size: no free has merged a block with a
\* buddy outside the segment, no merged block begins below start or ends
\* above end.
C32_BlocksInside ==
    \A s \in LoadedSegs : \A b \in ListedBlocks(vm_page_segs[s]) :
        LET seg == vm_page_segs[s]
        IN  /\ b.page \in DOMAIN seg.pages
            /\ b.page + 2 ^ b.order - 1 \in DOMAIN seg.pages
            /\ PagePa(seg, b.page) >= seg.start
            /\ PagePa(seg, b.page) + vm_page_ptoa(2 ^ b.order) <= seg.end

\* The first page of a segment is free and its buddy is below the start of
\* the segment, while a block of two pages is free whose buddy begins inside
\* the segment and ends beyond it.
C32_Witness ==
    \E s \in LoadedSegs :
        LET seg == vm_page_segs[s]
            listed == ListedBlocks(seg)
        IN  /\ \E b \in listed :
                   /\ b.page = 0
                   /\ BitXor(PagePa(seg, 0), vm_page_ptoa(2 ^ b.order))
                          < seg.start
            /\ \E b \in listed :
                   LET buddy_pa == BitXor(PagePa(seg, b.page),
                                          vm_page_ptoa(2 ^ b.order))
                   IN  /\ b.order = 1
                       /\ buddy_pa >= seg.start
                       /\ buddy_pa < seg.end
                       /\ buddy_pa + vm_page_ptoa(2) > seg.end

\* The blocks of up to the size of the segment that are aligned on their
\* size, lie inside the segment and have all their pages in frames.
WholeBlocks(seg, frames) ==
    {b \in (DOMAIN seg.pages)
              \X {o \in FreeListOrders : 2 ^ o <= seg.pages_end} :
        /\ PagePa(seg, b[1]) % vm_page_ptoa(2 ^ b[2]) = 0
        /\ BlockPages(b[1], b[2]) \subseteq frames}

\* C39: in every state (the buddy operations are steps of the model) no
\* segment has two free-list blocks of the same order o < 10 whose physical
\* addresses differ exactly by XOR with 2^o * PAGE_SIZE; the blocks on the
\* free lists are therefore determined by the set of frames they cover:
\* they are the largest aligned blocks made of these frames.
C39_NoFreeBuddies ==
    \A s \in LoadedSegs :
        LET seg == vm_page_segs[s]
            listed == ListedBlocks(seg)
            frames == UNION {BlockPages(b.page, b.order) : b \in listed}
            whole == WholeBlocks(seg, frames)
        IN  /\ \A a \in listed : \A b \in listed :
                   a.order = b.order /\ a.order < VM_PAGE_NR_FREE_LISTS - 1 =>
                       PagePa(seg, b.page)
                           # BitXor(PagePa(seg, a.page),
                                    vm_page_ptoa(2 ^ a.order))
            /\ {<<b.page, b.order>> : b \in listed}
                   = {b \in whole :
                         \A c \in whole :
                             c = b \/ ~(BlockPages(b[1], b[2])
                                          \subseteq BlockPages(c[1], c[2]))}

\* Two buddies of two pages each have been freed one after the other and
\* are one block of four pages, next to a free page whose buddy is
\* allocated.
C39_Witness ==
    \E s \in LoadedSegs :
        LET seg == vm_page_segs[s]
            listed == ListedBlocks(seg)
        IN  /\ hist.stage = "freed"
            /\ hist.order = 1
            /\ \E b \in listed :
                   b.order = 2 /\ hist.page \in BlockPages(b.page, 2)
            /\ \E b \in listed :
                   /\ b.order = 0
                   /\ ~BuddyOutside(seg, b.page, 0)

(***************************************************************************)
(* Coalescing.  The processor inside the allocator keeps executing and     *)
(* gets the locks it waits for; nothing makes callers call again.          *)
(***************************************************************************)
SpecBuddyFair ==
    /\ SpecBuddy
    /\ []<>(~NoWait(1) \/ ~Alive)
    /\ SF_vars(LockStep(1))

\* The aligned ranges of 2^k page frames (1 <= k), as <<first frame, k>>.
CoalesceRanges ==
    {r \in (0 .. MaxBuddyStart + MaxBuddyFrames) \X (1 .. MaxBuddyOrder) :
        r[1] % (2 ^ r[2]) = 0}

\* The page frames of a range that lies inside segment s: page descriptors
\* of the segment.
RangePages(s, r) ==
    {vm_page_atop(vm_page_ptoa(frame) - vm_page_segs[s].start) :
        frame \in BlockPages(r[1], r[2])}

RangeInside(s, r) ==
    /\ vm_page_is_ready = 1
    /\ s \in LoadedSegs
    /\ vm_page_ptoa(r[1]) >= vm_page_segs[s].start
    /\ vm_page_ptoa(r[1] + 2 ^ r[2]) <= vm_page_segs[s].end

\* Every frame of the range has been freed and not allocated since.
RangeFreed(s, r) ==
    /\ RangeInside(s, r)
    /\ \A page \in RangePages(s, r) :
           vm_page_segs[s].pages[page].type = VM_PT_FREE

\* Every frame of the range has been given to the buddy system and not
\* taken from it since: it is part of a block on a free list.
RangeInBuddy(s, r) ==
    /\ RangeInside(s, r)
    /\ RangePages(s, r)
           \subseteq UNION {BlockPages(b.page, b.order) :
                               b \in ListedBlocks(vm_page_segs[s])}

\* One block on the free lists of order k or more covers the range.
RangeCovered(s, r) ==
    /\ RangeInside(s, r)
    /\ \E b \in ListedBlocks(vm_page_segs[s]) :
           /\ b.order >= r[2]
           /\ RangePages(s, r) \subseteq BlockPages(b.page, b.order)

MaxPoolFrames == 8

PoolLoadInputs ==
    {<<SegFrames + 2, SegFrames + 2 + n, SegFrames + 2, SegFrames + 2 + n>> :
        n \in 2 .. MaxPoolFrames}

LoadPool ==
    /\ vm_page_segs_size = 0
    /\ \E a \in PoolLoadInputs :
           vm_page_load(0, vm_page_ptoa(a[1]), vm_page_ptoa(a[2]),
                        vm_page_ptoa(a[3]), vm_page_ptoa(a[4]))

\* vm_page_alloc_pa(0, VM_PAGE_SEL_DIRECTMAP, VM_PT_KERNEL): the steps of a
\* call for a single page.
AllocPage(t) ==
    \/ AllocCall(t, 0, VM_PAGE_SEL_DIRECTMAP, VM_PT_KERNEL)
    \/ AllocExit(t)
    \/ AllocLockPool(t)
    \/ AllocPop(t)
    \/ AllocLockFill(t)
    \/ AllocFill(t)
    \/ AllocReturn(t)

\* vm_page_free_pa(page, 0): the steps of a call for a single page.
FreePage(t) ==
    \/ \E b \in held : FreeCall(t, b)
    \/ FreeLockPool(t)
    \/ FreePush(t)
    \/ FreeLockDrain(t)
    \/ FreeDrain(t)

NextPool ==
    \/ LoadPool /\ UNCHANGED biosmem_vars
    \/ vm_page_setup /\ UNCHANGED biosmem_vars
    \/ \E t \in Threads :
           OthersIdle(t) /\ AllocPage(t) /\ UNCHANGED biosmem_vars
    \/ \E t \in Threads :
           OthersIdle(t) /\ FreePage(t) /\ UNCHANGED biosmem_vars

SpecPool == Init /\ [][NextPool]_vars

\* The pages of a segment that are part of a block on a free list.
BuddyPages(seg) ==
    UNION {BlockPages(b.page, b.order) : b \in ListedBlocks(seg)}

\* The pages linked in a CPU pool.
PoolPages(cpu_pool) == {cpu_pool.pages[n] : n \in 1 .. Len(cpu_pool.pages)}

\* C34: an order-0 allocation that finds the pool of its processor empty
\* moves m = min(transfer_size, pages the free lists of the segment hold)
\* pages from the free lists to the pool; with m >= 1 it returns one of them
\* and leaves nr_pages = m - 1; with m = 0 the attempt on the segment
\* returns NULL (the walk goes on to the next segment) and the pool is
\* still empty.
C34_Refill ==
    [][\A t \in Threads :
           pc[t] = "seg_alloc_fill" /\ pc'[t] # "seg_alloc_fill" =>
               LET s == th[t].i
                   seg == vm_page_segs[s]
                   after == vm_page_segs'[s]
                   cpu_pool == seg.cpu_pools[th[t].cpu]
                   filled == after.cpu_pools[th[t].cpu]
                   m == MIN(cpu_pool.transfer_size, seg.nr_free_pages)
                   moved == PoolPages(filled) \cup {th'[t].page}
               IN  /\ th[t].order = 0
                   /\ cpu_pool.nr_pages = 0
                   /\ after.nr_free_pages = seg.nr_free_pages - m
                   /\ filled.nr_pages = Len(filled.pages)
                   /\ IF m >= 1
                      THEN /\ pc'[t] = "alloc_done"
                           /\ th'[t].page # NULL
                           /\ filled.nr_pages = m - 1
                           /\ Cardinality(moved) = m
                           /\ moved \subseteq BuddyPages(seg)
                           /\ moved \cap BuddyPages(after) = {}
                      ELSE /\ pc'[t] = "alloc_pa"
                           /\ th'[t].i = UnsignedDec(s)
                           /\ th'[t].page = NULL
                           /\ filled.nr_pages = 0
                           /\ after.free_lists = seg.free_lists]_vars

\* The first allocation on a segment whose pools hold 4 pages and take 2 at
\* a time has returned a page: one page is left in the pool, two have left
\* the free lists.
C34_Witness ==
    \E t \in Threads :
        LET seg == vm_page_segs[th[t].i]
        IN  /\ pc[t] = "alloc_done"
            /\ th[t].order = 0
            /\ th[t].page # NULL
            /\ held = {}
            /\ seg.cpu_pools[th[t].cpu].size = 4
            /\ seg.cpu_pools[th[t].cpu].transfer_size = 2
            /\ seg.cpu_pools[th[t].cpu].nr_pages = 1
            /\ PooledPages(seg) = 1
            /\ seg.nr_free_pages = seg.pages_end - 1 - 2

\* C35: an order-0 vm_page_free_pa that finds the pool of its processor
\* full (nr_pages = size) returns the transfer_size pages at the head of the
\* pool to the free lists of the segment and then pushes the page freed:
\* nr_pages is size - transfer_size + 1 and nr_free_pages is transfer_size
\* more, for every pool size.
C35_Drain ==
    [][\A t \in Threads :
           pc[t] = "seg_free_drain" /\ pc'[t] # "seg_free_drain" =>
               LET s == th[t].i
                   seg == vm_page_segs[s]
                   after == vm_page_segs'[s]
                   cpu_pool == seg.cpu_pools[th[t].cpu]
                   drained == after.cpu_pools[th[t].cpu]
                   moved == {cpu_pool.pages[n] :
                                n \in 1 .. cpu_pool.transfer_size}
               IN  /\ th[t].order = 0
                   /\ cpu_pool.nr_pages = cpu_pool.size
                   /\ pc'[t] = "idle"
                   /\ drained.nr_pages
                          = cpu_pool.size - cpu_pool.transfer_size + 1
                   /\ drained.pages
                          = <<th[t].page>>
                                \o SubSeq(cpu_pool.pages,
                                          cpu_pool.transfer_size + 1,
                                          cpu_pool.size)
                   /\ after.nr_free_pages
                          = seg.nr_free_pages + cpu_pool.transfer_size
                   /\ Cardinality(moved) = cpu_pool.transfer_size
                   /\ moved \cap BuddyPages(seg) = {}
                   /\ moved \subseteq BuddyPages(after)
                   /\ th[t].page \notin BuddyPages(after)]_vars

\* A processor frees a page while its pool of 4 pages is full and has taken
\* the segment lock to drain it.
C35_Witness ==
    \E t \in Threads :
        LET cpu_pool == vm_page_segs[th[t].i].cpu_pools[th[t].cpu]
        IN  /\ pc[t] = "seg_free_drain"
            /\ cpu_pool.size = 4
            /\ cpu_pool.transfer_size = 2
            /\ cpu_pool.nr_pages = 4
            /\ vm_page_segs[th[t].i].lock = t

\* The free lists, the counter and the lock of every segment, and every
\* CPU pool, in a segment table.
BuddyState(segs) ==
    [s \in SegIndexes |->
        [free_lists |-> segs[s].free_lists,
         nr_free_pages |-> segs[s].nr_free_pages,
         lock |-> segs[s].lock]]

PoolState(segs) == [s \in SegIndexes |-> segs[s].cpu_pools]

\* The order of the call thread t is in, or enters with this step.
CallOrder(t) == IF pc[t] = "idle" THEN th'[t].order ELSE th[t].order

\* C36: an order-0 vm_page_alloc_pa that finds the pool of its processor
\* not empty and an order-0 vm_page_free_pa that finds it not full go on
\* without the segment lock and leave the free lists and nr_free_pages of
\* every segment as they are; every step of a call with order > 0 leaves
\* every CPU pool as it is.
C36_PoolFastPath ==
    [][\A t \in Threads :
           pc'[t] # pc[t] =>
               LET cpu_pool == vm_page_segs[th[t].i].cpu_pools[th[t].cpu]
               IN  /\ pc[t] = "seg_alloc_pool" /\ cpu_pool.nr_pages # 0 =>
                          /\ pc'[t] = "alloc_done"
                          /\ th'[t].page # NULL
                          /\ SegLocks(vm_page_segs, t) = {}
                          /\ BuddyState(vm_page_segs')
                                 = BuddyState(vm_page_segs)
                   /\ (/\ pc[t] = "seg_free_pool"
                       /\ cpu_pool.nr_pages # cpu_pool.size) =>
                          /\ pc'[t] = "idle"
                          /\ SegLocks(vm_page_segs, t) = {}
                          /\ BuddyState(vm_page_segs')
                                 = BuddyState(vm_page_segs)
                   /\ CallOrder(t) > 0 =>
                          PoolState(vm_page_segs') = PoolState(vm_page_segs)
          ]_vars

\* A processor has found a page in its pool while the other processor, in
\* a call with order 1, holds the lock of the same segment.
C36_Witness ==
    \E t \in Threads : \E u \in Threads :
        LET seg == vm_page_segs[th[t].i]
        IN  /\ pc[t] = "seg_alloc_pool"
            /\ th[t].order = 0
            /\ seg.cpu_pools[th[t].cpu].nr_pages # 0
            /\ pc[u] \in {"seg_alloc_buddy", "seg_free_buddy"}
            /\ th[u].order = 1
            /\ th[u].i = th[t].i
            /\ seg.lock = u

(***************************************************************************)
(* The partitioner on any map: the boot loader passes a map of             *)
(* BIOSMEM_MAX_MAP_SIZE entries that begin in the first or in the last     *)
(* page frame of a class, at the frame or half a page above, and are half  *)
(* a page to PartitionHalves half pages long, of either type, in any       *)
(* order, overlapping or not.  The kernel image is one page frame at       *)
(* BIOSMEM_END.                                                            *)
(***************************************************************************)
PartitionHalves == 8

PartitionLengths == {1, 3, PartitionHalves}

PartitionBases ==
    {vm_page_atop(a) * 2 + o :
        a \in {BIOSMEM_BASE, VM_PAGE_DMA_LIMIT - PAGE_SIZE,
               VM_PAGE_DMA32_LIMIT - PAGE_SIZE,
               VM_PAGE_DIRECTMAP_LIMIT - PAGE_SIZE},
        o \in {0, 1}}

PartitionEntries ==
    {[base_addr |-> b * HALF_PAGE, length |-> l * HALF_PAGE, type |-> t] :
        b \in PartitionBases, l \in PartitionLengths, t \in MapTypes}

InitPartition ==
    /\ InitPage
    /\ biosmem_map = <<>>
    /\ biosmem_heap_start = 0
    /\ biosmem_heap_cur = 0
    /\ biosmem_heap_end = 0
    /\ biosmem_segments = [s \in SegIndexes |-> ZeroBootSeg]
    /\ phys_last_addr = 0
    /\ \E mmap \in [1 .. BIOSMEM_MAX_MAP_SIZE -> PartitionEntries] :
           boot = [NoBoot EXCEPT
                      !.mbi = [NoMbi EXCEPT !.flags = {"MMAP"},
                                            !.mmap = mmap,
                                            !.mem_upper = PartitionHalves * 2],
                      !.kernel = [start |-> BIOSMEM_END,
                                  end |-> BIOSMEM_END + PAGE_SIZE],
                      !.mmap = mmap, !.stage = "loaded"]

SpecPartition == InitPartition /\ [][NextBoot]_vars

\* The class windows: [previous class limit, class limit).
ClassStart(s) ==
    CASE s = VM_PAGE_SEG_DMA -> BIOSMEM_BASE
      [] s = VM_PAGE_SEG_DMA32 -> VM_PAGE_DMA_LIMIT
      [] s = VM_PAGE_SEG_DIRECTMAP -> VM_PAGE_DMA32_LIMIT
      [] OTHER -> VM_PAGE_DIRECTMAP_LIMIT

ClassEnd(s) ==
    CASE s = VM_PAGE_SEG_DMA -> VM_PAGE_DMA_LIMIT
      [] s = VM_PAGE_SEG_DMA32 -> VM_PAGE_DMA32_LIMIT
      [] s = VM_PAGE_SEG_DIRECTMAP -> VM_PAGE_DIRECTMAP_LIMIT
      [] OTHER -> VM_PAGE_HIGHMEM_LIMIT

\* The page-aligned ranges of the AVAILABLE entries of a map that hold a
\* whole page frame and meet the window of class s: <<start, end>>.
ClassAvailable(map, s) ==
    {r \in {<<vm_page_round(map[k].base_addr),
              vm_page_trunc(map[k].base_addr + map[k].length)>> :
                k \in {n \in 1 .. Len(map) :
                          map[n].type = BIOSMEM_TYPE_AVAILABLE}} :
        r[1] < r[2] /\ r[1] < ClassEnd(s) /\ r[2] > ClassStart(s)}

SetMin(S) == CHOOSE x \in S : \A y \in S : x <= y

SetMax(S) == CHOOSE x \in S : \A y \in S : y <= x

\* biosmem_bootstrap_common has gone through the map; biosmem_map is the
\* adjusted map.
Partitioned ==
    /\ boot.stage = "bootstrapped"
    /\ fatal # "biosmem: too many memory map entries"

\* C37: for every adjusted map the segments the partitioner assigns are
\* page-aligned with start < end, each inside the window of its class,
\* disjoint and ascending by index, and each goes from the lowest to the
\* highest page-aligned boundary of the AVAILABLE entries that meet its
\* window (cut at the window); a class gets a segment only if it and every
\* class below it has AVAILABLE memory, and without any in the DMA class
\* the boot panics.
C37_AsStated ==
    Partitioned =>
        /\ (fatal = "biosmem: unable to find any memory segment")
               = (ClassAvailable(biosmem_map, VM_PAGE_SEG_DMA) = {})
        /\ ClassAvailable(biosmem_map, VM_PAGE_SEG_DMA) # {} =>
               \A s \in SegIndexes :
                   LET seg == biosmem_segments[s]
                       avail == ClassAvailable(biosmem_map, s)
                   IN  IF \E j \in 0 .. s :
                              ClassAvailable(biosmem_map, j) = {}
                       THEN seg = ZeroBootSeg
                       ELSE /\ vm_page_aligned(seg.start)
                            /\ vm_page_aligned(seg.end)
                            /\ seg.start < seg.end
                            /\ ClassStart(s) <= seg.start
                            /\ seg.end <= ClassEnd(s)
                            /\ \A j \in 0 .. s - 1 :
                                   biosmem_segments[j].end <= seg.start
                            /\ seg.start
                                   = MAX(ClassStart(s),
                                         SetMin({r[1] : r \in avail}))
                            /\ seg.end
                                   = MIN(ClassEnd(s),
                                         SetMax({r[2] : r \in avail}))

(***************************************************************************)
(* biosmem.c: the gap walk of biosmem_setup_allocator, one iteration of    *)
(* its loop at a time.  boot.walk holds the locals next, max_heap_start    *)
(* and max_heap_end while boot.stage is "setup_allocator".  The boot       *)
(* loaders of this part may pass a module table without modules and a      *)
(* module without contents.                                                *)
(***************************************************************************)
\* mem_upper, in units of 2 KiB.
GapUppers == {4, MaxUpper}

\* Where the boot data of the gap walk start, in half pages: from the last
\* half page of lower memory on.
GapAddrs == {BIOSMEM_END \div HALF_PAGE - 1, BIOSMEM_END \div HALF_PAGE,
             BIOSMEM_END \div HALF_PAGE + 2, MaxBootAddr}

\* The module tables: none, or one module of zero to MaxDataHalves half
\* pages, without a command line.
GapModules ==
    {<<>>}
    \cup {<<[mod_start |-> a * HALF_PAGE, mod_end |-> (a + n) * HALF_PAGE,
             string |-> 0, string_len |-> 0, reserved |-> 0]>> :
              a \in GapAddrs, n \in {0, 1, MaxDataHalves}}

\* The multiboot information: no map, two page frames of lower memory, a
\* command line or none, and the module flag with or without modules.
GapInfos ==
    {[flags |-> (IF c.cmdline # 0 THEN {"CMDLINE"} ELSE {}) \cup f,
      mem_lower |-> (2 * PAGE_SIZE) \div 1024, mem_upper |-> 2 * u,
      mmap |-> <<>>, cmdline |-> c.cmdline, cmdline_len |-> c.len,
      unused0 |-> 0, mods_addr |-> IF f = {} THEN 0 ELSE a * HALF_PAGE,
      mods |-> IF f = {} THEN <<>> ELSE mods] :
        u \in GapUppers, c \in BootCmdlines, mods \in GapModules,
        a \in GapAddrs, f \in {{}, {"MODULES"}}}

\* biosmem_bootstrap has built and adjusted the map, assigned the segments
\* and saved the sizes of the command lines (biosmem.c:637-651); it enters
\* biosmem_setup_allocator, whose loop starts at BIOSMEM_END.
InitGapWalk ==
    /\ InitPage
    /\ biosmem_heap_start = 0
    /\ biosmem_heap_cur = 0
    /\ biosmem_heap_end = 0
    /\ \E mbi \in GapInfos : \E kernel \in BootKernels :
       \E adjust \in {biosmem_map_adjust(biosmem_map_build_simple(mbi))} :
       \E common \in {biosmem_bootstrap_common(adjust.map)} :
           /\ ~adjust.panic
           /\ ~common.panic
           /\ biosmem_map = adjust.map
           /\ biosmem_segments = common.segments
           /\ phys_last_addr = common.phys_last_addr
           /\ boot = [walk |-> [next |-> BIOSMEM_END, max_heap_start |-> 0,
                                max_heap_end |-> 0]]
                     @@ [NoBoot EXCEPT
                            !.mbi = biosmem_save_cmdline_sizes(mbi),
                            !.kernel = kernel, !.adjusted = TRUE,
                            !.stage = "setup_allocator"]

\* mem_end of biosmem_setup_allocator.
GapMemEnd(mbi) ==
    MIN(vm_page_trunc(((mbi.mem_upper + BIOSMEM_END \div 1024) * 1024)
                          % UINT_MOD),
        VM_PAGE_DIRECTMAP_LIMIT)

\* One iteration of do ... while (next != 0) (biosmem.c:516-529).
GapWalkStep ==
    /\ boot.stage = "setup_allocator"
    /\ fatal = NoFatal
    /\ LET mem_end == GapMemEnd(boot.mbi)
           heap_start == boot.walk.next
           f == biosmem_find_boot_data(BootData(boot.mbi, boot.kernel),
                                       heap_start, mem_end)
           heap_end == IF f.start = 0 THEN mem_end ELSE f.start
           next == IF f.start = 0 THEN 0 ELSE f.end
           larger == (heap_end - heap_start) % UINT_MOD
                         > (boot.walk.max_heap_end
                                - boot.walk.max_heap_start) % UINT_MOD
       IN  boot' = [boot EXCEPT
                       !.walk = [next |-> next,
                                 max_heap_start |->
                                     IF larger THEN heap_start
                                     ELSE @.max_heap_start,
                                 max_heap_end |->
                                     IF larger THEN heap_end
                                     ELSE @.max_heap_end],
                       !.stage = IF next # 0 THEN @ ELSE "heap_found"]
    /\ UNCHANGED <<vm_page_is_ready, vm_page_segs_size, vm_page_boot_segs,
                   vm_page_segs, fatal, thread_vars, biosmem_map,
                   biosmem_heap_start, biosmem_heap_cur, biosmem_heap_end,
                   biosmem_segments, phys_last_addr>>

\* After the loop (biosmem.c:531-539): the largest gap becomes the heap.
GapWalkEnd ==
    /\ boot.stage = "heap_found"
    /\ fatal = NoFatal
    /\ LET max_heap_start == vm_page_round(boot.walk.max_heap_start)
           max_heap_end == vm_page_trunc(boot.walk.max_heap_end)
       IN  IF max_heap_start >= max_heap_end
           THEN /\ fatal' = "biosmem: unable to set up the early memory allocator"
                /\ UNCHANGED <<biosmem_heap_start, biosmem_heap_cur,
                               biosmem_heap_end>>
           ELSE /\ fatal' = NoFatal
                /\ biosmem_heap_start' = max_heap_start
                /\ biosmem_heap_end' = max_heap_end
                /\ biosmem_heap_cur' = max_heap_end
    /\ boot' = [boot EXCEPT !.stage = "bootstrapped"]
    /\ UNCHANGED <<vm_page_is_ready, vm_page_segs_size, vm_page_boot_segs,
                   vm_page_segs, thread_vars, biosmem_map, biosmem_segments,
                   phys_last_addr>>

NextGapWalk ==
    \/ GapWalkStep
    \/ GapWalkEnd

SpecGapWalk == InitGapWalk /\ [][NextGapWalk]_vars

\* The boot processor runs: an iteration that can change the state is taken.
\* An iteration that leaves every local as it was is a stuttering step, and
\* a behaviour that repeats it for ever is the loop that never ends.
SpecGapWalkFair ==
    /\ SpecGapWalk
    /\ WF_vars(GapWalkStep)
    /\ WF_vars(GapWalkEnd)

\* The boot data that are empty and lie at or above BIOSMEM_END and below
\* the end of upper memory.
EmptyBootData ==
    LET data == BootData(boot.mbi, boot.kernel)
    IN  {k \in 1 .. Len(data) :
            /\ data[k][1] = data[k][2]
            /\ BIOSMEM_END <= data[k][1]
            /\ data[k][1] < GapMemEnd(boot.mbi)}

\* C38: the gap walk of biosmem_setup_allocator ends for every set of boot
\* data, those with an empty module or a module table of zero modules at or
\* above BIOSMEM_END and below the end of upper memory included.
C38_AsStated == <>(boot.stage # "setup_allocator")

\* The gap walk ends when no boot data is empty.
GapWalkEndsWithoutEmpty == (EmptyBootData = {}) => <>(boot.stage # "setup_allocator")

\* The walk has come to an empty boot data and its next iteration starts
\* where this one started.
GapWalkStuck ==
    /\ boot.stage = "setup_allocator"
    /\ \E k \in EmptyBootData :
           BootData(boot.mbi, boot.kernel)[k][1] = boot.walk.next
    /\ ~ENABLED <<GapWalkStep>>_vars

\* C40: in every boot biosmem_free_usable comes to its end with no
\* assertion of biosmem_free_usable_range or vm_page_manage failed: every
\* frame it releases is found by vm_page_lookup_pa in a loaded segment and
\* is VM_PT_RESERVED at that moment, so none is released twice and none
\* lies outside the loaded segments.
C40_AsStated ==
    [][biosmem_free_usable => fatal' = NoFatal]_vars

====
